---- MODULE Spec2Model ----
(***************************************************************************)
(* weew: terminal canvas (double-buffered diff renderer with clip stack    *)
(* and wide-glyph accounting), keyboard input reader and Flex layout.      *)
(*                                                                         *)
(* Canvas      : src/src/ansi_test.ts lines 321-579 (class Canvas)         *)
(* ansi helpers: src/src/ansi.ts                                           *)
(* input       : src/unnamed/part_003 (parseKeyEvent, KeyboardInput)       *)
(* layout      : src/src/layout.ts (Flex, Row, Column)                     *)
(***************************************************************************)
EXTENDS Integers, Sequences, FiniteSets, TLC

VARIABLES
  \* ---- Canvas ----
  width, height,      \* Canvas.width / Canvas.height
  bufferA, bufferB,   \* the two grids, [y -> [x -> Cell]]
  buffer,             \* which grid this.buffer points to: "A" or "B"
  prevBuffer,         \* which grid this.prevBuffer points to: "null", "A", "B"
  clipStack,          \* sequence of ClipRect
  held,               \* cell objects the caller keeps a reference to
  output,             \* the stream handed to write() by the last render, <<>> if none
  term,               \* the terminal that receives write()
  last,               \* the last Canvas operation and its arguments
  nops, nframes,      \* operations in the current frame, frames rendered
  \* ---- KeyboardInput ----
  running,            \* this.running
  handlers,           \* this.handlers, a sequence of handler functions
  pendingRead,        \* this.pendingRead: a read promise, NoRead for null
  readBuffer,         \* this.readBuffer, 16 bytes shared by every read
  pc,                 \* where start() is: idle, awaitMain, race, emit, done, thrown
  awaited,            \* the read promise start() is suspended on
  curBytes,           \* the local `bytes` of the current iteration
  outstanding,        \* stdin reads issued and not yet settled, oldest first
  nissued,            \* stdin reads issued so far
  ei,                 \* emit(): position of the for-of iterator in this.handlers
  carry,              \* nextRead to store in this.pendingRead after emit()
  passStart,          \* this.handlers when the current emit() pass started
  invoked,            \* handlers called by the current emit() pass, in order
  unreg,              \* handlers removed from this.handlers during the pass
  unsubs,             \* handlers for which onKey() returned an unsubscribe
  spent,              \* handlers whose latest unsubscribe was already called
  events,             \* every event handed to emit(), in order
  bytesRead,          \* every byte returned by a settled stdin read, in order
  lastResult,         \* how the last await settled: none, data, eof, error, timeout
  stopAt,             \* the number of events emitted when stop() was last called
  lastError,          \* the error the last rejected read failed with, "none" if none
  \* ---- Flex ----
  flexProps,          \* the props the Flex component was built with
  flexRect,           \* the rect given to render()
  childRects,         \* the rects the children were rendered with, in order
  rendered,           \* whether render() has run
  \* ---- stripAnsi / visibleLength ----
  strSrc,             \* the string the caller starts from
  strRes,             \* results of successive stripAnsi() calls, each on the last
  strLens             \* visibleLength() of strSrc, strRes[1], ... as measured

cvars == <<width, height, bufferA, bufferB, buffer, prevBuffer, clipStack,
           held, output, term, last, nops, nframes>>

ivars == <<running, handlers, pendingRead, readBuffer, pc, awaited, curBytes,
           outstanding, nissued, ei, carry, passStart, invoked, unreg, unsubs,
           spent, events, bytesRead, lastResult, stopAt, lastError>>

lvars == <<flexProps, flexRect, childRects, rendered>>

svars == <<strSrc, strRes, strLens>>

vars == <<cvars, ivars, lvars, svars>>

(***************************************************************************)
(* Bounds                                                                  *)
(***************************************************************************)
MaxW == 2
MaxH == 1
MaxOps == 2
MaxFrames == 3
MaxClip == 2
MaxTextW == 4
MaxStr == 3
MaxHandlerIds == 3
MaxHandlers == 3
MaxBytes == 3
MaxChunk == 2
MaxPasses == 2
MaxParam == 25
MaxMod == 17
MaxOdd == 3
MaxChildren == 2
MaxFields == 2
MaxStripLen == 6
MaxStrips == 2
MaxPlaced == 3

(***************************************************************************)
(* Code points                                                             *)
(***************************************************************************)
Empty == -1            \* the empty string "" (no code point)
Cont == Empty - 1      \* terminal only: right half of a wide glyph
SP == 32               \* " "
ChA == 65              \* "A"
ChB == 66              \* "B"
ChWide == 20320        \* U+4F60, a CJK ideograph
ChComb == 769          \* U+0301, combining acute accent
ChEsc == 27
ChLBr == 91            \* "["
ChM == 109             \* "m"

\* fg / bg / style: 0 is undefined, n > 0 is an escape code
Undef == 0
Red == 1
Bold == 1

charWidth(code) ==
  IF code = Empty THEN 0
  ELSE IF \/ (code >= 768 /\ code <= 879)
          \/ (code >= 6832 /\ code <= 6911)
          \/ (code >= 7616 /\ code <= 7679)
          \/ (code >= 8400 /\ code <= 8447)
          \/ (code >= 65056 /\ code <= 65071)
          \/ code = 8203 \/ code = 8204 \/ code = 8205 \/ code = 65279
       THEN 0
  ELSE IF \/ (code >= 4352 /\ code <= 4447)
          \/ (code >= 9728 /\ code <= 9983)
          \/ (code >= 9984 /\ code <= 10175)
          \/ (code >= 11904 /\ code <= 40959)
          \/ (code >= 44032 /\ code <= 55203)
          \/ (code >= 63744 /\ code <= 64255)
          \/ (code >= 65040 /\ code <= 65055)
          \/ (code >= 65072 /\ code <= 65135)
          \/ (code >= 65280 /\ code <= 65376)
          \/ (code >= 65504 /\ code <= 65510)
          \/ (code >= 131072 /\ code <= 196605)
          \/ (code >= 196608 /\ code <= 262141)
          \/ (code >= 127744 /\ code <= 129535)
          \/ (code >= 129536 /\ code <= 129791)
       THEN 2
  ELSE 1

(***************************************************************************)
(* stripAnsi: str.replace(ANSI_REGEX, "") with                             *)
(*   /\x1b(?:\[[0-9;?]*[a-zA-Z~]|\].*?(?:\x07|\x1b\\)|\([A-Z])/g           *)
(* MatchLen(s, i) is the length of the match starting at index i, 0 if     *)
(* the regex does not match there.                                         *)
(***************************************************************************)
IsParam(c) == (c >= 48 /\ c <= 57) \/ c = 59 \/ c = 63
IsFinal(c) == (c >= 97 /\ c <= 122) \/ (c >= 65 /\ c <= 90) \/ c = 126
IsUpper(c) == c >= 65 /\ c <= 90

RECURSIVE SkipParams(_, _)
SkipParams(s, j) ==
  IF j <= Len(s) /\ IsParam(s[j]) THEN SkipParams(s, j + 1) ELSE j

\* first index k >= j where the OSC terminator (BEL, or ESC \) ends; 0 if none
RECURSIVE OscEnd(_, _)
OscEnd(s, j) ==
  IF j > Len(s) THEN 0
  ELSE IF s[j] = 7 THEN j
  ELSE IF s[j] = 27 /\ j + 1 <= Len(s) /\ s[j + 1] = 92 THEN j + 1
  ELSE IF s[j] \in {10, 13, 8232, 8233} THEN 0   \* "." matches no line terminator
  ELSE OscEnd(s, j + 1)

MatchLen(s, i) ==
  IF s[i] # 27 \/ i + 1 > Len(s) THEN 0
  ELSE IF s[i + 1] = 91 THEN
         LET j == SkipParams(s, i + 2)
         IN IF j <= Len(s) /\ IsFinal(s[j]) THEN j - i + 1 ELSE 0
  ELSE IF s[i + 1] = 93 THEN
         LET e == OscEnd(s, i + 2)
         IN IF e = 0 THEN 0 ELSE e - i + 1
  ELSE IF s[i + 1] = 40 THEN
         IF i + 2 <= Len(s) /\ IsUpper(s[i + 2]) THEN 3 ELSE 0
  ELSE 0

RECURSIVE StripFrom(_, _)
StripFrom(s, i) ==
  IF i > Len(s) THEN <<>>
  ELSE LET n == MatchLen(s, i)
       IN IF n > 0 THEN StripFrom(s, i + n)
          ELSE <<s[i]>> \o StripFrom(s, i + 1)

stripAnsi(s) == StripFrom(s, 1)

RECURSIVE SumWidth(_)
SumWidth(s) == IF s = <<>> THEN 0 ELSE charWidth(Head(s)) + SumWidth(Tail(s))

visibleLength(s) == SumWidth(stripAnsi(s))

\* the strings at hand: strSrc, then each stripAnsi() result
StrAt(k) == IF k = 1 THEN strSrc ELSE strRes[k - 1]

\* a caller holding the string s, nothing called yet
Caller(s) ==
  /\ strSrc = s
  /\ strRes = <<>>
  /\ strLens = <<>>

\* stripAnsi(str) on the latest string
StripAnsi ==
  /\ Len(strRes) < MaxStrips
  /\ strRes' = Append(strRes, stripAnsi(StrAt(Len(strRes) + 1)))
  /\ UNCHANGED <<strSrc, strLens, cvars, ivars, lvars>>

\* visibleLength(str) on the next string not measured yet
VisibleLength ==
  /\ Len(strLens) <= Len(strRes)
  /\ strLens' = Append(strLens, visibleLength(StrAt(Len(strLens) + 1)))
  /\ UNCHANGED <<strSrc, strRes, cvars, ivars, lvars>>

(***************************************************************************)
(* Key decoder.  Strings are sequences of code points.                     *)
(***************************************************************************)
Keys ==
  [Enter |-> <<69, 110, 116, 101, 114>>,
   Escape |-> <<69, 115, 99, 97, 112, 101>>,
   Tab |-> <<84, 97, 98>>,
   Backspace |-> <<66, 97, 99, 107, 115, 112, 97, 99, 101>>,
   Delete |-> <<68, 101, 108, 101, 116, 101>>,
   Up |-> <<85, 112>>,
   Down |-> <<68, 111, 119, 110>>,
   Left |-> <<76, 101, 102, 116>>,
   Right |-> <<82, 105, 103, 104, 116>>,
   Home |-> <<72, 111, 109, 101>>,
   End |-> <<69, 110, 100>>,
   PageUp |-> <<80, 97, 103, 101, 85, 112>>,
   PageDown |-> <<80, 97, 103, 101, 68, 111, 119, 110>>,
   Insert |-> <<73, 110, 115, 101, 114, 116>>,
   F1 |-> <<70, 49>>,
   F2 |-> <<70, 50>>,
   F3 |-> <<70, 51>>,
   F4 |-> <<70, 52>>,
   F5 |-> <<70, 53>>,
   F6 |-> <<70, 54>>,
   F7 |-> <<70, 55>>,
   F8 |-> <<70, 56>>,
   F9 |-> <<70, 57>>,
   F10 |-> <<70, 49, 48>>,
   F11 |-> <<70, 49, 49>>,
   F12 |-> <<70, 49, 50>>]
KeySpace == <<32>>

\* new TextDecoder().decode(bytes): UTF-8, malformed input becomes U+FFFD,
\* a leading byte order mark is dropped
Replacement == 65533
IsCont(b, lo, hi) == b >= lo /\ b <= hi

RECURSIVE Utf8From(_, _)
Utf8From(b, i) ==
  IF i > Len(b) THEN <<>>
  ELSE LET c == b[i]
           has(k) == i + k <= Len(b)
           lo2 == IF c = 224 THEN 160 ELSE IF c = 240 THEN 144 ELSE 128
           hi2 == IF c = 237 THEN 159 ELSE IF c = 244 THEN 143 ELSE 191
           need == IF c >= 194 /\ c <= 223 THEN 1
                   ELSE IF c >= 224 /\ c <= 239 THEN 2
                   ELSE IF c >= 240 /\ c <= 244 THEN 3 ELSE 0
       IN IF c <= 127 THEN <<c>> \o Utf8From(b, i + 1)
          ELSE IF need = 0 THEN <<Replacement>> \o Utf8From(b, i + 1)
          ELSE IF ~(has(1) /\ IsCont(b[i + 1], lo2, hi2))
            THEN <<Replacement>> \o Utf8From(b, i + 1)
          ELSE IF need = 1
            THEN <<(c - 192) * 64 + (b[i + 1] - 128)>> \o Utf8From(b, i + 2)
          ELSE IF ~(has(2) /\ IsCont(b[i + 2], 128, 191))
            THEN <<Replacement>> \o Utf8From(b, i + 2)
          ELSE IF need = 2
            THEN <<(c - 224) * 4096 + (b[i + 1] - 128) * 64 + (b[i + 2] - 128)>>
                 \o Utf8From(b, i + 3)
          ELSE IF ~(has(3) /\ IsCont(b[i + 3], 128, 191))
            THEN <<Replacement>> \o Utf8From(b, i + 3)
          ELSE <<(c - 240) * 262144 + (b[i + 1] - 128) * 4096
                 + (b[i + 2] - 128) * 64 + (b[i + 3] - 128)>> \o Utf8From(b, i + 4)

TextDecode(b) ==
  LET s == Utf8From(b, 1)
  IN IF s # <<>> /\ Head(s) = 65279 THEN Tail(s) ELSE s

IsDigit(c) == c >= 48 /\ c <= 57

\* parseInt of a string of decimal digits
RECURSIVE ParseInt(_)
ParseInt(d) ==
  IF d = <<>> THEN 0 ELSE ParseInt(SubSeq(d, 1, Len(d) - 1)) * 10 + (d[Len(d)] - 48)

\* a bit test on the modifier parameter itself, without the minus one
BitOfParameter(m, k) == (((m + 1) \div (2 ^ k)) % 2) = 1

\* (m & 2^k) !== 0 on the 32-bit two's complement value of m, k < 31
Bit(m, k) ==
  LET low == IF m < 0 THEN (m + 2147483647) + 1 ELSE m
  IN (low \div (2 ^ k)) % 2 = 1

\* seq.match(/^(\d+);(\d+)([A-Z~])$/): <<param, modifier digits, final>> or <<>>
ModMatch(seq) ==
  LET semis == {i \in 1..Len(seq) : seq[i] = 59}
  IN IF semis = {} THEN <<>>
     ELSE LET i == CHOOSE j \in semis : \A k \in semis : j <= k
              p == SubSeq(seq, 1, i - 1)
              m == SubSeq(seq, i + 1, Len(seq) - 1)
              f == seq[Len(seq)]
          IN IF /\ i < Len(seq)
                /\ p # <<>> /\ \A k \in 1..Len(p) : IsDigit(p[k])
                /\ m # <<>> /\ \A k \in 1..Len(m) : IsDigit(m[k])
                /\ (IsUpper(f) \/ f = 126)
             THEN <<p, m, <<f>>>> ELSE <<>>

TildeKey(p) ==
  IF p = <<50>> THEN Keys.Insert
  ELSE IF p = <<51>> THEN Keys.Delete
  ELSE IF p = <<53>> THEN Keys.PageUp
  ELSE IF p = <<54>> THEN Keys.PageDown
  ELSE IF p = <<49, 49>> THEN Keys.F1
  ELSE IF p = <<49, 50>> THEN Keys.F2
  ELSE IF p = <<49, 51>> THEN Keys.F3
  ELSE IF p = <<49, 52>> THEN Keys.F4
  ELSE IF p = <<49, 53>> THEN Keys.F5
  ELSE IF p = <<49, 55>> THEN Keys.F6
  ELSE IF p = <<49, 56>> THEN Keys.F7
  ELSE IF p = <<49, 57>> THEN Keys.F8
  ELSE IF p = <<50, 48>> THEN Keys.F9
  ELSE IF p = <<50, 49>> THEN Keys.F10
  ELSE IF p = <<50, 51>> THEN Keys.F11
  ELSE IF p = <<50, 52>> THEN Keys.F12
  ELSE <<>>

LetterKey(f) ==
  IF f = 65 THEN Keys.Up
  ELSE IF f = 66 THEN Keys.Down
  ELSE IF f = 67 THEN Keys.Right
  ELSE IF f = 68 THEN Keys.Left
  ELSE IF f = 72 THEN Keys.Home
  ELSE IF f = 70 THEN Keys.End
  ELSE IF f = 80 THEN Keys.F1
  ELSE IF f = 81 THEN Keys.F2
  ELSE IF f = 82 THEN Keys.F3
  ELSE IF f = 83 THEN Keys.F4
  ELSE <<>>

\* the unmodified CSI table: seq === "A", ..., "24~", "1P" .. "1S"
PlainCsiKey(seq) ==
  IF Len(seq) = 1 /\ seq[1] \in {65, 66, 67, 68, 72, 70} THEN LetterKey(seq[1])
  ELSE IF Len(seq) >= 2 /\ seq[Len(seq)] = 126
    THEN TildeKey(SubSeq(seq, 1, Len(seq) - 1))
  ELSE IF Len(seq) = 2 /\ seq[1] = 49 /\ seq[2] \in {80, 81, 82, 83}
    THEN LetterKey(seq[2])
  ELSE <<>>

KeyEvent(key, ctrl, alt, shift, meta, raw) ==
  [key |-> key, ctrl |-> ctrl, alt |-> alt, shift |-> shift, meta |-> meta,
   raw |-> raw]

\* the CSI branch: the event's key and modifiers (key <<>> when nothing matched)
CsiEvent(bytes) ==
  LET seq == TextDecode(SubSeq(bytes, 3, Len(bytes)))
      plain == PlainCsiKey(seq)
      mm == ModMatch(seq)
  IN IF plain # <<>> THEN KeyEvent(plain, FALSE, FALSE, FALSE, FALSE, bytes)
     ELSE IF mm = <<>> THEN KeyEvent(<<>>, FALSE, FALSE, FALSE, FALSE, bytes)
     ELSE LET modifier == ParseInt(mm[2]) - 1
              key == IF mm[3] = <<126>> THEN TildeKey(mm[1]) ELSE LetterKey(mm[3][1])
          IN KeyEvent(key, Bit(modifier, 2), Bit(modifier, 1), Bit(modifier, 0),
                      Bit(modifier, 3), bytes)

\* a single-byte decoder whose switch runs before the Ctrl+letter range
singleByteSwitchFirst(bytes) ==
  LET byte == bytes[1]
  IN IF byte = 27 THEN KeyEvent(Keys.Escape, FALSE, FALSE, FALSE, FALSE, bytes)
     ELSE IF byte = 127 \/ byte = 8
       THEN KeyEvent(Keys.Backspace, FALSE, FALSE, FALSE, FALSE, bytes)
     ELSE IF byte = 9 THEN KeyEvent(Keys.Tab, FALSE, FALSE, FALSE, FALSE, bytes)
     ELSE IF byte = 13 \/ byte = 10
       THEN KeyEvent(Keys.Enter, FALSE, FALSE, FALSE, FALSE, bytes)
     ELSE IF byte = 0 THEN KeyEvent(KeySpace, TRUE, FALSE, FALSE, FALSE, bytes)
     ELSE IF byte >= 1 /\ byte <= 26
       THEN KeyEvent(<<byte + 96>>, TRUE, FALSE, FALSE, FALSE, bytes)
     ELSE KeyEvent(<<byte>>, FALSE, FALSE, byte >= 65 /\ byte <= 90, FALSE, bytes)

\* a single-byte decoder that sets shift for every ASCII letter
singleByteShiftAnyLetter(bytes) ==
  LET byte == bytes[1]
  IN IF byte >= 1 /\ byte <= 26
       THEN KeyEvent(<<byte + 96>>, TRUE, FALSE, FALSE, FALSE, bytes)
     ELSE IF byte = 27 THEN KeyEvent(Keys.Escape, FALSE, FALSE, FALSE, FALSE, bytes)
     ELSE IF byte = 127
       THEN KeyEvent(Keys.Backspace, FALSE, FALSE, FALSE, FALSE, bytes)
     ELSE IF byte = 0 THEN KeyEvent(KeySpace, TRUE, FALSE, FALSE, FALSE, bytes)
     ELSE KeyEvent(<<byte>>, FALSE, FALSE, byte >= 65 /\ byte <= 122, FALSE, bytes)

\* bytes.length === 1
singleByte(bytes) ==
  LET byte == bytes[1]
  IN IF byte >= 1 /\ byte <= 26
       THEN KeyEvent(<<byte + 96>>, TRUE, FALSE, FALSE, FALSE, bytes)
     ELSE IF byte = 27 THEN KeyEvent(Keys.Escape, FALSE, FALSE, FALSE, FALSE, bytes)
     ELSE IF byte = 127 \/ byte = 8
       THEN KeyEvent(Keys.Backspace, FALSE, FALSE, FALSE, FALSE, bytes)
     ELSE IF byte = 9 THEN KeyEvent(Keys.Tab, FALSE, FALSE, FALSE, FALSE, bytes)
     ELSE IF byte = 13 \/ byte = 10
       THEN KeyEvent(Keys.Enter, FALSE, FALSE, FALSE, FALSE, bytes)
     ELSE IF byte = 0 THEN KeyEvent(KeySpace, TRUE, FALSE, FALSE, FALSE, bytes)
     ELSE KeyEvent(<<byte>>, FALSE, FALSE, byte >= 65 /\ byte <= 90, FALSE, bytes)

\* the final decode: key = new TextDecoder().decode(bytes), flags as they are
fallthrough(ev, bytes) == [ev EXCEPT !.key = TextDecode(bytes)]

parseKeyEvent(bytes) ==
  IF Len(bytes) = 1 THEN singleByte(bytes)
  ELSE IF Len(bytes) = 2 /\ bytes[1] = 27 /\ bytes[2] >= 32
    THEN KeyEvent(<<bytes[2]>>, FALSE, TRUE, FALSE, FALSE, bytes)
  ELSE LET csi == IF Len(bytes) >= 3 /\ bytes[1] = 27 /\ bytes[2] = 91
                  THEN CsiEvent(bytes)
                  ELSE KeyEvent(<<>>, FALSE, FALSE, FALSE, FALSE, bytes)
           ss3 == IF Len(bytes) >= 3 /\ bytes[1] = 27 /\ bytes[2] = 79
                     /\ bytes[3] \in {80, 81, 82, 83}
                  THEN LetterKey(bytes[3]) ELSE <<>>
       IN IF csi.key # <<>> THEN csi
          ELSE IF ss3 # <<>> THEN [csi EXCEPT !.key = ss3]
          ELSE fallthrough(csi, bytes)

(***************************************************************************)
(* Canvas                                                                  *)
(***************************************************************************)
\* A Cell object.  id = 0: an object only this grid slot refers to; id > 0:
\* the object held[id], which the caller still holds and may pass again.
Cell(c, f, b, s) == [char |-> c, fg |-> f, bg |-> b, style |-> s, id |-> 0]
BlankCell == Cell(SP, Undef, Undef, Undef)
HeldIds == {1}

createBuffer(w, h) == [y \in 0..(h - 1) |-> [x \in 0..(w - 1) |-> BlankCell]]

Buffer == IF buffer = "A" THEN bufferA ELSE bufferB
Other == IF buffer = "A" THEN bufferB ELSE bufferA
PrevGrid == IF prevBuffer = "A" THEN bufferA ELSE bufferB

InBounds(x, y) == x >= 0 /\ x < width /\ y >= 0 /\ y < height

InClip(x, y) ==
  \/ Len(clipStack) = 0
  \/ LET clip == clipStack[Len(clipStack)]
     IN ~(x < clip.x \/ x >= clip.x + clip.width \/
          y < clip.y \/ y >= clip.y + clip.height)

\* a set() whose bounds check starts at column 1
setOffByOne(g, x, y, cell) ==
  IF ~InClip(x, y) THEN g
  ELSE IF x > 0 /\ x < width /\ y >= 0 /\ y < height
    THEN [g EXCEPT ![y][x] = cell]
  ELSE g

\* a set() that checks every rectangle of the stack
setAllClips(g, x, y, cell) ==
  IF \E i \in 1..Len(clipStack) :
        (x < clipStack[i].x \/ x >= clipStack[i].x + clipStack[i].width \/
         y < clipStack[i].y \/ y >= clipStack[i].y + clipStack[i].height)
    THEN g
  ELSE IF InBounds(x, y) THEN [g EXCEPT ![y][x] = cell]
  ELSE g

\* set(x, y, cell) applied to grid g
set(g, x, y, cell) ==
  IF ~InClip(x, y) THEN g
  ELSE IF InBounds(x, y) THEN [g EXCEPT ![y][x] = cell]
  ELSE g

Undefined == [char |-> Empty, fg |-> Undef, bg |-> Undef, style |-> Undef, id |-> -1]

get(x, y) == IF InBounds(x, y) THEN Buffer[y][x] ELSE Undefined

\* text(): the loop over the code points of the stripped string
RECURSIVE textLoop(_, _, _, _, _, _)
textLoop(g, xi, yi, s, col, opt) ==
  IF s = <<>> THEN g
  ELSE LET ch == Head(s)
           w == charWidth(ch)
       IN IF w = 0 THEN textLoop(g, xi, yi, Tail(s), col, opt)
          ELSE LET g1 == set(g, xi + col, yi, Cell(ch, opt.fg, opt.bg, opt.style))
                   g2 == IF w = 2
                         THEN set(g1, xi + col + 1, yi,
                                  Cell(Empty, opt.fg, opt.bg, Undef))
                         ELSE g1
               IN textLoop(g2, xi, yi, Tail(s), col + w, opt)

\* a text() that advances the column by one for every glyph
RECURSIVE textLoopNarrow(_, _, _, _, _, _)
textLoopNarrow(g, xi, yi, s, col, opt) ==
  IF s = <<>> THEN g
  ELSE LET ch == Head(s)
           w == charWidth(ch)
       IN IF w = 0 THEN textLoopNarrow(g, xi, yi, Tail(s), col, opt)
          ELSE LET g1 == set(g, xi + col, yi, Cell(ch, opt.fg, opt.bg, opt.style))
                   g2 == IF w = 2
                         THEN set(g1, xi + col + 1, yi,
                                  Cell(Empty, opt.fg, opt.bg, Undef))
                         ELSE g1
               IN textLoopNarrow(g2, xi, yi, Tail(s), col + 1, opt)

textNarrow(g, x, y, s, opt) == textLoopNarrow(g, x, y, stripAnsi(s), 0, opt)

text(g, x, y, s, opt) == textLoop(g, x, y, stripAnsi(s), 0, opt)

RECURSIVE hline(_, _, _, _, _, _)
hline(g, x, y, len, ch, opt) ==
  IF len <= 0 THEN g
  ELSE set(hline(g, x, y, len - 1, ch, opt), x + len - 1, y,
           Cell(ch, opt.fg, opt.bg, Undef))

RECURSIVE vline(_, _, _, _, _, _)
vline(g, x, y, len, ch, opt) ==
  IF len <= 0 THEN g
  ELSE set(vline(g, x, y, len - 1, ch, opt), x, y + len - 1,
           Cell(ch, opt.fg, opt.bg, Undef))

RECURSIVE fill(_, _, _, _, _, _, _)
fill(g, x, y, w, h, ch, opt) ==
  IF h <= 0 THEN g
  ELSE hline(fill(g, x, y, w, h - 1, ch, opt), x, y + h - 1, w, ch, opt)

\* clear(): every cell object of the current grid is reset in place
clearCell(c) == [c EXCEPT !.char = SP, !.fg = Undef, !.bg = Undef, !.style = Undef]
IdsIn(g) == {g[y][x].id : y \in 0..(height - 1), x \in 0..(width - 1)} \ {0}
clearGrid(g) == [y \in 0..(height - 1) |-> [x \in 0..(width - 1) |-> clearCell(g[y][x])]]
clearAliased(g, ids) ==
  [y \in 0..(height - 1) |-> [x \in 0..(width - 1) |->
     IF g[y][x].id \in ids THEN clearCell(g[y][x]) ELSE g[y][x]]]

(***************************************************************************)
(* render(): the diff walk.  The stream is a sequence of tokens.           *)
(***************************************************************************)
Tok(t, a, b) == [t |-> t, a |-> a, b |-> b]
TReset == Tok("reset", 0, 0)
TTo(x, y) == Tok("to", x, y)

SameCell(p, c) ==
  p.char = c.char /\ p.fg = c.fg /\ p.bg = c.bg /\ p.style = c.style

\* a diff that compares the glyph only
UnchangedGlyph(pb, x, y) ==
  pb # "null" /\ (IF pb = "A" THEN bufferA ELSE bufferB)[y][x].char = Buffer[y][x].char

\* does render() skip the cell at (x, y)?  pb is this.prevBuffer
Unchanged(pb, x, y) ==
  pb # "null" /\ SameCell((IF pb = "A" THEN bufferA ELSE bufferB)[y][x], Buffer[y][x])

Skipped(pb, x, y) == Buffer[y][x].char = Empty \/ Unchanged(pb, x, y)

StyleCodes(cell) ==
  (IF cell.style # Undef THEN <<Tok("style", cell.style, 0)>> ELSE <<>>) \o
  (IF cell.fg # Undef THEN <<Tok("fg", cell.fg, 0)>> ELSE <<>>) \o
  (IF cell.bg # Undef THEN <<Tok("bg", cell.bg, 0)>> ELSE <<>>)

renderCell(pb, acc, x, y) ==
  LET cell == Buffer[y][x]
  IN IF Skipped(pb, x, y) THEN acc
     ELSE LET repos == acc.penX # x \/ acc.penY # y
              p1 == IF repos
                    THEN (IF Len(acc.parts) > 0 THEN Append(acc.parts, TReset)
                          ELSE acc.parts) \o <<TTo(x, y)>>
                    ELSE acc.parts
              cs == IF repos THEN Undef ELSE acc.curStyle
              cf == IF repos THEN Undef ELSE acc.curFg
              cb == IF repos THEN Undef ELSE acc.curBg
              chg == cell.style # cs \/ cell.fg # cf \/ cell.bg # cb
              p2 == IF chg THEN p1 \o <<TReset>> \o StyleCodes(cell) ELSE p1
          IN [parts |-> Append(p2, Tok("char", cell.char, 0)),
              penX |-> x + (IF charWidth(cell.char) > 1 THEN 2 ELSE 1),
              penY |-> y,
              curStyle |-> IF chg THEN cell.style ELSE cs,
              curFg |-> IF chg THEN cell.fg ELSE cf,
              curBg |-> IF chg THEN cell.bg ELSE cb]

\* cells 0 .. i-1 in row-major order
RECURSIVE renderWalk(_, _)
renderWalk(pb, i) ==
  IF i = 0
  THEN [parts |-> <<>>, penX |-> -1, penY |-> -1,
        curStyle |-> Undef, curFg |-> Undef, curBg |-> Undef]
  ELSE renderCell(pb, renderWalk(pb, i - 1), (i - 1) % width, (i - 1) \div width)

renderOutput(pb) ==
  LET parts == renderWalk(pb, width * height).parts
  IN IF Len(parts) > 0 THEN Append(parts, TReset) ELSE <<>>

(***************************************************************************)
(* The terminal that receives write(): a grid of shown glyphs, a cursor    *)
(* and the current SGR attributes.  cursor.to / style.reset are the codes  *)
(* of src/src/ansi.ts; a width-2 glyph covers its column and the next.     *)
(***************************************************************************)
TermW == MaxW + 1
TermH == MaxH

Shown(c, f, b, s) == [char |-> c, fg |-> f, bg |-> b, style |-> s]
TermBlank == Shown(SP, Undef, Undef, Undef)

TermInit ==
  [grid |-> [y \in 0..(TermH - 1) |-> [x \in 0..(TermW - 1) |-> TermBlank]],
   cx |-> 0, cy |-> 0, style |-> Undef, fg |-> Undef, bg |-> Undef]

\* overwriting column x of row r breaks the wide glyph that covered it
BreakWide(r, x) ==
  [c \in DOMAIN r |->
     IF c = x - 1 /\ r[x].char = Cont THEN [r[c] EXCEPT !.char = SP]
     ELSE IF c = x + 1 /\ r[c].char = Cont /\ r[x].char # Cont
       THEN [r[c] EXCEPT !.char = SP]
     ELSE r[c]]

TermPut(t, ch) ==
  LET w == charWidth(ch)
      r0 == t.grid[t.cy]
      g == Shown(ch, t.fg, t.bg, t.style)
      r1 == [BreakWide(r0, t.cx) EXCEPT ![t.cx] = g]
      r2 == IF w = 2 /\ t.cx + 1 < TermW
            THEN [BreakWide(r1, t.cx + 1) EXCEPT
                    ![t.cx] = g, ![t.cx + 1] = Shown(Cont, t.fg, t.bg, t.style)]
            ELSE r1
      nx == IF t.cx + w < TermW THEN t.cx + w ELSE TermW - 1
  IN IF w = 0 THEN t
     ELSE [t EXCEPT !.grid[t.cy] = r2, !.cx = nx]

TermStep(t, tok) ==
  IF tok.t = "reset" THEN [t EXCEPT !.style = Undef, !.fg = Undef, !.bg = Undef]
  ELSE IF tok.t = "to" THEN [t EXCEPT !.cx = tok.a, !.cy = tok.b]
  ELSE IF tok.t = "style" THEN [t EXCEPT !.style = tok.a]
  ELSE IF tok.t = "fg" THEN [t EXCEPT !.fg = tok.a]
  ELSE IF tok.t = "bg" THEN [t EXCEPT !.bg = tok.a]
  ELSE TermPut(t, tok.a)

RECURSIVE TermApply(_, _)
TermApply(t, toks) ==
  IF toks = <<>> THEN t ELSE TermApply(TermStep(t, Head(toks)), Tail(toks))

(***************************************************************************)
(* Operations.  last records the operation and its arguments.              *)
(***************************************************************************)
Plain == [fg |-> Undef, bg |-> Undef, style |-> Undef]
Loud == [fg |-> Red, bg |-> Undef, style |-> Bold]
NoRect == [x |-> 0, y |-> 0, width |-> 0, height |-> 0]

Op(name, x, y, cell, str, opt, rect) ==
  [op |-> name, x |-> x, y |-> y, cell |-> cell, str |-> str, opt |-> opt,
   rect |-> rect]

Op0(name) == Op(name, 0, 0, BlankCell, <<>>, Plain, NoRect)

Write(g) ==
  IF buffer = "A" THEN bufferA' = g /\ UNCHANGED bufferB
  ELSE bufferB' = g /\ UNCHANGED bufferA

CanOp == nops < MaxOps /\ nframes < MaxFrames

Draw(g, op) ==
  /\ CanOp
  /\ Write(g)
  /\ last' = op
  /\ nops' = nops + 1
  /\ UNCHANGED <<ivars, lvars, svars>>
  /\ UNCHANGED <<width, height, buffer, prevBuffer, clipStack, held, output,
                 term, nframes>>

Set(x, y, c) ==
  Draw(set(Buffer, x, y, c), Op("set", x, y, c, <<>>, Plain, NoRect))

Text(x, y, s, o) ==
  Draw(text(Buffer, x, y, s, o), Op("text", x, y, BlankCell, s, o, NoRect))

HLine(x, y, len, ch, o) ==
  Draw(hline(Buffer, x, y, len, ch, o),
       Op("hline", x, y, BlankCell, <<ch>>, o, [NoRect EXCEPT !.width = len]))

VLine(x, y, len, ch, o) ==
  Draw(vline(Buffer, x, y, len, ch, o),
       Op("vline", x, y, BlankCell, <<ch>>, o, [NoRect EXCEPT !.height = len]))

Fill(x, y, w, h, ch, o) ==
  Draw(fill(Buffer, x, y, w, h, ch, o),
       Op("fill", x, y, BlankCell, <<ch>>, o,
          [NoRect EXCEPT !.width = w, !.height = h]))

Clear ==
  /\ CanOp
  /\ LET ids == IdsIn(Buffer)
     IN /\ IF buffer = "A"
           THEN bufferA' = clearGrid(bufferA) /\ bufferB' = clearAliased(bufferB, ids)
           ELSE bufferB' = clearGrid(bufferB) /\ bufferA' = clearAliased(bufferA, ids)
        /\ held' = [i \in HeldIds |-> IF i \in ids THEN clearCell(held[i]) ELSE held[i]]
  /\ last' = Op0("clear")
  /\ nops' = nops + 1
  /\ UNCHANGED <<ivars, lvars, svars>>
  /\ UNCHANGED <<width, height, buffer, prevBuffer, clipStack, output, term,
                 nframes>>

\* a resize() that keeps the snapshot
ResizeKeepsSnapshot(w, h) ==
  /\ CanOp
  /\ width' = w /\ height' = h
  /\ bufferA' = createBuffer(w, h)
  /\ bufferB' = createBuffer(w, h)
  /\ buffer' = "A"
  /\ last' = Op("resize", w, h, BlankCell, <<>>, Plain, NoRect)
  /\ nops' = nops + 1
  /\ UNCHANGED <<ivars, lvars, svars>>
  /\ UNCHANGED <<prevBuffer, clipStack, held, output, term, nframes>>

\* resize(w, h)
Resize(w, h) ==
  /\ CanOp
  /\ width' = w /\ height' = h
  /\ bufferA' = createBuffer(w, h)
  /\ bufferB' = createBuffer(w, h)
  /\ buffer' = "A"
  /\ prevBuffer' = "null"
  /\ last' = Op("resize", w, h, BlankCell, <<>>, Plain, NoRect)
  /\ nops' = nops + 1
  /\ UNCHANGED <<ivars, lvars, svars>>
  /\ UNCHANGED <<clipStack, held, output, term, nframes>>

PushClip(r) ==
  /\ CanOp /\ Len(clipStack) < MaxClip
  /\ clipStack' = Append(clipStack, r)
  /\ last' = Op("pushClip", 0, 0, BlankCell, <<>>, Plain, r)
  /\ nops' = nops + 1
  /\ UNCHANGED <<ivars, lvars, svars>>
  /\ UNCHANGED <<width, height, bufferA, bufferB, buffer, prevBuffer, held,
                 output, term, nframes>>

PopClip ==
  /\ CanOp
  /\ clipStack' = IF Len(clipStack) = 0 THEN clipStack
                  ELSE SubSeq(clipStack, 1, Len(clipStack) - 1)
  /\ last' = Op0("popClip")
  /\ nops' = nops + 1
  /\ UNCHANGED <<ivars, lvars, svars>>
  /\ UNCHANGED <<width, height, bufferA, bufferB, buffer, prevBuffer, held,
                 output, term, nframes>>

\* render(): diff walk against pb, write(), swap
render(name, pb) ==
  /\ nframes < MaxFrames
  /\ output' = renderOutput(pb)
  /\ term' = TermApply(term, renderOutput(pb))
  /\ prevBuffer' = buffer
  /\ buffer' = IF buffer = "A" THEN "B" ELSE "A"
  /\ last' = Op0(name)
  /\ nops' = 0
  /\ nframes' = nframes + 1
  /\ UNCHANGED <<ivars, lvars, svars>>
  /\ UNCHANGED <<width, height, bufferA, bufferB, clipStack, held>>

Render == render("render", prevBuffer)

\* fullRender(): this.prevBuffer = null; this.render()
FullRender == render("fullRender", "null")

\* new Canvas(w, h)
Canvas(w, h) ==
  /\ width = w /\ height = h
  /\ bufferA = createBuffer(w, h)
  /\ bufferB = createBuffer(w, h)
  /\ buffer = "A"
  /\ prevBuffer = "null"
  /\ clipStack = <<>>
  /\ output = <<>>
  /\ term = TermInit
  /\ last = Op0("new")
  /\ nops = 0
  /\ nframes = 0

(***************************************************************************)
(* KeyboardInput: src/unnamed/part_003 lines 203-294.  start() runs from   *)
(* one await to the next without interruption; stdin settles reads in the  *)
(* order they were issued; other callers (stop, onKey, unsubscribe) run    *)
(* only while start() is suspended or from inside a handler.               *)
(***************************************************************************)
NoRead == 0
BufLen == 16
HandlerIds == 1..MaxHandlerIds

Data(chunk) == [kind |-> "data", chunk |-> chunk, name |-> "none"]
Eof == [kind |-> "eof", chunk |-> <<>>, name |-> "none"]
Rejected(name) == [kind |-> "error", chunk |-> <<>>, name |-> name]
ErrorNames == {"Interrupted", "BadResource", "Other"}

\* Deno.stdin.read(this.readBuffer) settling with n = Len(chunk)
WriteBuf(buf, chunk) ==
  [i \in 1..BufLen |-> IF i <= Len(chunk) THEN chunk[i] ELSE buf[i]]

\* this.readBuffer.slice(0, n)
Slice(buf, n) == [i \in 1..n |-> buf[i]]

RemoveAt(q, i) == SubSeq(q, 1, i - 1) \o SubSeq(q, i + 1, Len(q))

\* the function onKey() returns: indexOf + splice
unsubscribe(hs, h) ==
  LET idx == {i \in 1..Len(hs) : hs[i] = h}
  IN IF idx = {} THEN hs
     ELSE RemoveAt(hs, CHOOSE i \in idx : \A j \in idx : i <= j)

\* new KeyboardInput()
KeyboardInput ==
  /\ running = FALSE
  /\ handlers = <<>>
  /\ pendingRead = NoRead
  /\ readBuffer = [i \in 1..BufLen |-> 0]
  /\ pc = "idle"
  /\ awaited = NoRead
  /\ curBytes = <<>>
  /\ outstanding = <<>>
  /\ nissued = 0
  /\ ei = 1
  /\ carry = NoRead
  /\ passStart = <<>>
  /\ invoked = <<>>
  /\ unreg = {}
  /\ unsubs = {}
  /\ spent = {}
  /\ events = <<>>
  /\ bytesRead = <<>>
  /\ lastResult = "none"
  /\ stopAt = 0
  /\ lastError = "none"

\* a loop head that does not test this.running
LoopTopForever(run, pr, out) ==
  IF pr # NoRead
    THEN /\ pc' = "awaitMain"
         /\ awaited' = pr /\ pendingRead' = NoRead /\ outstanding' = out
         /\ UNCHANGED nissued
  ELSE /\ pc' = "awaitMain"
       /\ nissued' = nissued + 1
       /\ awaited' = nissued + 1
       /\ outstanding' = Append(out, nissued + 1)
       /\ pendingRead' = NoRead

\* a loop head whose doRead() reads stdin even when a read is pending
LoopTopAlwaysReads(run, pr, out) ==
  IF ~run
    THEN /\ pc' = "done"
         /\ pendingRead' = pr /\ outstanding' = out
         /\ UNCHANGED <<awaited, nissued>>
  ELSE /\ pc' = "awaitMain"
       /\ nissued' = nissued + 1
       /\ awaited' = nissued + 1
       /\ outstanding' = Append(out, nissued + 1)
       /\ pendingRead' = pr

\* while (this.running) { ... await this.doRead() : the loop head, reached with
\* this.running = run, this.pendingRead = pr and the reads out outstanding
LoopTop(run, pr, out) ==
  IF ~run
    THEN /\ pc' = "done"
         /\ pendingRead' = pr /\ outstanding' = out
         /\ UNCHANGED <<awaited, nissued>>
  ELSE IF pr # NoRead
    THEN /\ pc' = "awaitMain"
         /\ awaited' = pr /\ pendingRead' = NoRead /\ outstanding' = out
         /\ UNCHANGED nissued
  ELSE /\ pc' = "awaitMain"
       /\ nissued' = nissued + 1
       /\ awaited' = nissued + 1
       /\ outstanding' = Append(out, nissued + 1)
       /\ pendingRead' = NoRead

\* start()
Start ==
  /\ pc = "idle" /\ ~running
  /\ running' = TRUE
  /\ LoopTop(TRUE, pendingRead, outstanding)
  /\ UNCHANGED <<handlers, readBuffer, curBytes, ei, carry, passStart, invoked,
                 unreg, unsubs, spent, events, bytesRead, lastResult>>
  /\ UNCHANGED <<cvars, lvars, svars, stopAt, lastError>>

\* this.emit(event): the pass begins
BeginEmit(event, nextRead) ==
  /\ pc' = "emit"
  /\ events' = Append(events, event)
  /\ ei' = 1
  /\ carry' = nextRead
  /\ passStart' = handlers
  /\ invoked' = <<>>
  /\ unreg' = {}

\* a catch that does not recognise BadResource
CatchInterruptedOnly(name) ==
  /\ pc' = IF ~running \/ name = "Interrupted" THEN "done" ELSE "thrown"
  /\ UNCHANGED <<events, ei, carry, passStart, invoked, unreg>>

\* catch (e)
Catch(name) ==
  /\ pc' = IF ~running \/ name \in {"Interrupted", "BadResource"}
           THEN "done" ELSE "thrown"
  /\ UNCHANGED <<events, ei, carry, passStart, invoked, unreg>>

\* stdin settles the awaited read with r
Settle(r) ==
  /\ outstanding # <<>> /\ Head(outstanding) = awaited
  /\ readBuffer' = IF r.kind = "data" THEN WriteBuf(readBuffer, r.chunk)
                   ELSE readBuffer
  /\ bytesRead' = bytesRead \o r.chunk
  /\ lastResult' = r.kind
  /\ lastError' = IF r.kind = "error" THEN r.name ELSE lastError

\* const n = await this.doRead() resumes with r
MainRead(r) ==
  /\ pc = "awaitMain"
  /\ Settle(r)
  /\ IF r.kind = "error"
       THEN Catch(r.name) /\ outstanding' = Tail(outstanding)
            /\ UNCHANGED <<curBytes, awaited, nissued>>
     ELSE IF r.kind = "eof"
       THEN /\ pc' = "done" /\ outstanding' = Tail(outstanding)
            /\ UNCHANGED <<curBytes, awaited, nissued, events, ei, carry,
                           passStart, invoked, unreg>>
     ELSE LET n == Len(r.chunk)
              b == Slice(readBuffer', n)
          IN /\ curBytes' = b
             /\ IF n = 1 /\ b[1] = 27
                  THEN /\ pc' = "race"
                       /\ nissued' = nissued + 1
                       /\ awaited' = nissued + 1
                       /\ outstanding' = Append(Tail(outstanding), nissued + 1)
                       /\ UNCHANGED <<events, ei, carry, passStart, invoked, unreg>>
                  ELSE /\ BeginEmit(parseKeyEvent(b), NoRead)
                       /\ outstanding' = Tail(outstanding)
                       /\ UNCHANGED <<awaited, nissued>>
  /\ UNCHANGED <<running, handlers, pendingRead, unsubs, spent>>
  /\ UNCHANGED <<cvars, lvars, svars, stopAt>>

\* await Promise.race([nextRead, timeout]) resumes with nextRead's result r
RaceRead(r) ==
  /\ pc = "race"
  /\ Settle(r)
  /\ outstanding' = Tail(outstanding)
  /\ IF r.kind = "error" THEN Catch(r.name)
     ELSE IF r.kind = "eof"
       THEN /\ pc' = "done"
            /\ UNCHANGED <<events, ei, carry, passStart, invoked, unreg>>
     ELSE BeginEmit(parseKeyEvent(<<27>> \o Slice(readBuffer', Len(r.chunk))),
                    NoRead)
  /\ UNCHANGED <<running, handlers, pendingRead, curBytes, awaited, nissued, unsubs, spent>>
  /\ UNCHANGED <<cvars, lvars, svars, stopAt>>

\* await Promise.race([nextRead, timeout]) resumes with "timeout"
RaceTimeout ==
  /\ pc = "race"
  /\ lastResult' = "timeout"
  /\ BeginEmit(parseKeyEvent(curBytes), awaited)
  /\ UNCHANGED <<running, handlers, pendingRead, readBuffer, curBytes, awaited,
                 outstanding, nissued, unsubs, spent, bytesRead>>
  /\ UNCHANGED <<cvars, lvars, svars, stopAt, lastError>>

\* what a handler does when called
Quiet == [do |-> "none", h |-> 0]
Unsub(h) == [do |-> "unsubscribe", h |-> h]
Reg(h) == [do |-> "onKey", h |-> h]
Stopper == [do |-> "stop", h |-> 0]

\* emit(): for (const handler of this.handlers) handler(event), one call
CallHandler(act) ==
  /\ pc = "emit" /\ ei <= Len(handlers)
  /\ invoked' = Append(invoked, handlers[ei])
  /\ ei' = ei + 1
  /\ CASE act.do = "none" -> UNCHANGED <<handlers, unreg, unsubs, spent, running>>
       [] act.do = "unsubscribe" ->
            /\ act.h \in unsubs
            /\ handlers' = unsubscribe(handlers, act.h)
            /\ unreg' = IF handlers' # handlers THEN unreg \cup {act.h} ELSE unreg
            /\ spent' = spent \cup {act.h}
            /\ UNCHANGED <<unsubs, running>>
       [] act.do = "onKey" ->
            /\ Len(handlers) < MaxHandlers
            /\ handlers' = Append(handlers, act.h)
            /\ unsubs' = unsubs \cup {act.h}
            /\ spent' = spent \ {act.h}
            /\ UNCHANGED <<unreg, running>>
       [] act.do = "stop" ->
            /\ running
            /\ running' = FALSE
            /\ UNCHANGED <<handlers, unreg, unsubs, spent>>
  /\ stopAt' = IF act.do = "stop" THEN Len(events) ELSE stopAt
  /\ UNCHANGED <<pendingRead, readBuffer, pc, awaited, curBytes, outstanding,
                 nissued, carry, passStart, events, bytesRead, lastResult>>
  /\ UNCHANGED <<cvars, lvars, svars, lastError>>

\* emit() returns; this.pendingRead = nextRead after a timeout; next iteration
EmitEnd ==
  /\ pc = "emit" /\ ei > Len(handlers)
  /\ LoopTop(running, IF carry # NoRead THEN carry ELSE pendingRead, outstanding)
  /\ carry' = NoRead
  /\ UNCHANGED <<running, handlers, readBuffer, curBytes, ei, passStart, invoked,
                 unreg, unsubs, spent, events, bytesRead, lastResult>>
  /\ UNCHANGED <<cvars, lvars, svars, stopAt, lastError>>

\* onKey(h), called while start() is suspended or before it
OnKey(h) ==
  /\ pc # "emit" /\ Len(handlers) < MaxHandlers
  /\ handlers' = Append(handlers, h)
  /\ unsubs' = unsubs \cup {h}
  /\ spent' = spent \ {h}
  /\ UNCHANGED <<running, pendingRead, readBuffer, pc, awaited, curBytes,
                 outstanding, nissued, ei, carry, passStart, invoked, unreg,
                 events, bytesRead, lastResult>>
  /\ UNCHANGED <<cvars, lvars, svars, stopAt, lastError>>

\* the function returned by onKey(h), called while start() is suspended
Unsubscribe(h) ==
  /\ pc # "emit" /\ h \in unsubs
  /\ handlers' = unsubscribe(handlers, h)
  /\ handlers' # handlers
  /\ spent' = spent \cup {h}
  /\ UNCHANGED <<running, pendingRead, readBuffer, pc, awaited, curBytes,
                 outstanding, nissued, ei, carry, passStart, invoked, unreg,
                 unsubs, events, bytesRead, lastResult>>
  /\ UNCHANGED <<cvars, lvars, svars, stopAt, lastError>>

\* stop(), called while start() is suspended
Stop ==
  /\ pc \in {"awaitMain", "race"} /\ running
  /\ running' = FALSE
  /\ stopAt' = Len(events)
  /\ UNCHANGED <<handlers, pendingRead, readBuffer, pc, awaited, curBytes,
                 outstanding, nissued, ei, carry, passStart, invoked, unreg,
                 unsubs, spent, events, bytesRead, lastResult>>
  /\ UNCHANGED <<cvars, lvars, svars, lastError>>

(***************************************************************************)
(* Flex layout: src/src/layout.ts lines 6-169                              *)
(*                                                                         *)
(* A FlexChild is a record of its optional numeric fields width, height,   *)
(* flex, minWidth, minHeight, maxWidth and maxHeight, Unset where the      *)
(* field is absent.  Its component records the rect it is rendered with.   *)
(* Lengths are integers.  flexUnit, spacing, initialOffset and mainPos are *)
(* binary64 values, rounded after every division, product and addition.    *)
(***************************************************************************)
Unset == -1

Directions == {"row", "column"}
Justifies == {"start", "end", "center", "between", "around", "evenly"}
Aligns == {"start", "end", "center", "stretch"}

Rect(x, y, w, h) == [x |-> x, y |-> y, width |-> w, height |-> h]

FlexProps(d, j, a, g, cs) ==
  [direction |-> d, justify |-> j, align |-> a, gap |-> g, children |-> cs]

\* Flex({ children: [] }): the defaults of lines 31-34
DefaultProps == FlexProps("row", "start", "stretch", 0, <<>>)

\* Row(children, options) / Column(children, options)
Row(children, options) ==
  [options EXCEPT !.direction = "row", !.children = children]
Column(children, options) ==
  [options EXCEPT !.direction = "column", !.children = children]

Math_max(a, b) == IF a >= b THEN a ELSE b
Math_min(a, b) == IF a <= b THEN a ELSE b

isRow(p) == p.direction = "row"
mainSize(p, r) == IF isRow(p) THEN r.width ELSE r.height
crossSize(p, r) == IF isRow(p) THEN r.height ELSE r.width
gaps(p) == (Len(p.children) - 1) * p.gap
fixedSize(p, child) == IF isRow(p) THEN child.width ELSE child.height

\* the first loop over the children: totalFixed and totalFlex
RECURSIVE totalFixed(_, _)
totalFixed(p, n) ==
  IF n = 0 THEN 0
  ELSE totalFixed(p, n - 1)
       + (IF fixedSize(p, p.children[n]) # Unset
          THEN fixedSize(p, p.children[n]) ELSE 0)

RECURSIVE totalFlex(_, _)
totalFlex(p, n) ==
  IF n = 0 THEN 0
  ELSE totalFlex(p, n - 1)
       + (IF fixedSize(p, p.children[n]) # Unset THEN 0
          ELSE IF p.children[n].flex \notin {Unset, 0} THEN p.children[n].flex
          ELSE 1)

availableSpace(p, r) ==
  mainSize(p, r) - totalFixed(p, Len(p.children)) - gaps(p)

\* Numbers of render() that need not be integers (flexUnit, spacing,
\* initialOffset, mainPos) are binary64 values.  Such a value x is kept as
\* <<m, err>> over a denominator d: x = (m + err / 2^58) / d, m / d being the
\* value the arithmetic would give without rounding and err the rounding
\* error so far.
\* 2^k modulo n, k <= 60
Pow2Mod(k, n) == (((2 ^ (k \div 2)) % n) * ((2 ^ (k - (k \div 2))) % n)) % n

\* floor(log2(a / d)), a > 0
RECURSIVE Binade(_, _)
Binade(a, d) ==
  IF a >= 2 * d THEN Binade(a, 2 * d) + 1
  ELSE IF a < d THEN Binade(2 * a, d) - 1
  ELSE 0

\* k, the unit in the last place being 2^-k, of a value of magnitude a / d in
\* binade e0, one binade lower when a / d is a power of two and the value is
\* below it; no value in render() needs more than 58 fraction bits
Ulp(a, d, below, e0) ==
  LET e == IF below /\ (IF e0 >= 0 THEN (2 ^ e0) * d = a ELSE (2 ^ (-e0)) * a = d)
           THEN e0 - 1 ELSE e0
  IN IF 52 - e <= 58 THEN 52 - e ELSE 58

\* the multiple of w nearest to m * 2^58 + err, ties to the even multiple;
\* t2 is m * 2^58 + err modulo 2 * w
Nearest(m, err, w, t2) ==
  IF 2 * (t2 % w) < w \/ (2 * (t2 % w) = w /\ t2 < w)
  THEN <<m, err - (t2 % w)>> ELSE <<m, err - (t2 % w) + w>>

\* (m + err / 2^58) / d rounded to a multiple of 2^-k
RoundTo(m, err, d, k) ==
  Nearest(m, err, d * (2 ^ (58 - k)),
          ((((m % (2 * d)) * Pow2Mod(k, 2 * d)) % (2 * d)) * (2 ^ (58 - k)) + err)
            % (2 * d * (2 ^ (58 - k))))

\* the binary64 value nearest to (m + err / 2^58) / d, ties to even: the
\* result of one division, product or addition
Round(m, err, d) ==
  IF m = 0 THEN <<0, err>>
  ELSE RoundTo(m, err, d,
               Ulp(IF m > 0 THEN m ELSE -m, d,
                   (m > 0 /\ err < 0) \/ (m < 0 /\ err > 0),
                   Binade(IF m > 0 THEN m ELSE -m, d)))

\* x + y and x * f in binary64
Plus(x, y, d) == Round(x[1] + y[1], x[2] + y[2], d)
Times(x, f, d) == Round(x[1] * f, x[2] * f, d)

\* Math.floor(x)
Math_floor(x, d) ==
  IF x[1] % d = 0 /\ x[2] < 0 THEN (x[1] \div d) - 1 ELSE x[1] \div d

\* Math.ceil in place of Math.floor
flexShareCeil(avail, total, flex) ==
  IF total > 0 THEN -((-(avail * flex)) \div total) ELSE 0

\* Math.floor(flexUnit * flex), flexUnit = availableSpace / totalFlex or 0
flexShare(avail, total, flex) ==
  IF total > 0
  THEN Math_floor(Times(Round(avail, 0, total), flex, total), total)
  ELSE 0

\* if (minSize !== undefined) size = Math.max(size, minSize);
\* if (maxSize !== undefined) size = Math.min(size, maxSize);
Clamp(size, minSize, maxSize) ==
  LET s1 == IF minSize # Unset THEN Math_max(size, minSize) ELSE size
  IN IF maxSize # Unset THEN Math_min(s1, maxSize) ELSE s1

\* one entry of sizes[]
childSize(p, r, child) ==
  IF fixedSize(p, child) # Unset THEN fixedSize(p, child)
  ELSE Clamp(flexShare(availableSpace(p, r), totalFlex(p, Len(p.children)),
                       IF child.flex = Unset THEN 1 ELSE child.flex),
             IF isRow(p) THEN child.minWidth ELSE child.minHeight,
             IF isRow(p) THEN child.maxWidth ELSE child.maxHeight)

sizes(p, r) == [i \in 1..Len(p.children) |-> childSize(p, r, p.children[i])]

RECURSIVE SumTo(_, _)
SumTo(s, n) == IF n = 0 THEN 0 ELSE SumTo(s, n - 1) + s[n]

\* extraSpace = mainSize - totalUsed
extraSpace(p, r) ==
  LET totalUsed == SumTo(sizes(p, r), Len(p.children)) + gaps(p)
  IN mainSize(p, r) - totalUsed

\* the denominator of spacing, initialOffset and mainPos
Den(p) ==
  LET n == Len(p.children)
  IN CASE p.justify = "center" -> 2
       [] p.justify = "between" -> IF n > 1 THEN n - 1 ELSE 1
       [] p.justify = "around" -> IF n > 0 THEN 2 * n ELSE 1
       [] p.justify = "evenly" -> n + 1
       [] OTHER -> 1

\* "between" divides by children.length
spacingByCount(p, r) ==
  IF p.justify = "between" /\ Len(p.children) > 1
  THEN <<extraSpace(p, r) \div Len(p.children), 0>>
  ELSE IF (p.justify = "around" /\ Len(p.children) > 0) \/ p.justify = "evenly"
  THEN Round((IF p.justify = "around" THEN 2 ELSE 1) * extraSpace(p, r), 0, Den(p))
  ELSE <<0, 0>>

\* spacing: extraSpace / (n - 1), extraSpace / n, extraSpace / (n + 1) or 0
spacing(p, r) ==
  IF \/ p.justify = "between" /\ Len(p.children) > 1
     \/ p.justify = "around" /\ Len(p.children) > 0
     \/ p.justify = "evenly"
  THEN Round((IF p.justify = "around" THEN 2 ELSE 1) * extraSpace(p, r), 0, Den(p))
  ELSE <<0, 0>>

\* "end" offsets by mainSize, not by extraSpace
initialOffsetBySize(p, r) ==
  CASE p.justify = "end" -> <<mainSize(p, r), 0>>
    [] p.justify = "center" -> <<extraSpace(p, r), 0>>
    [] p.justify \in {"around", "evenly"} ->
         [k \in 1..2 |->
            spacing(p, r)[k] \div (IF p.justify = "around" THEN 2 ELSE 1)]
    [] OTHER -> <<0, 0>>

\* initialOffset: extraSpace, extraSpace / 2, spacing / 2, spacing or 0;
\* halving a binary64 value is exact
initialOffset(p, r) ==
  CASE p.justify \in {"end", "center"} -> <<extraSpace(p, r), 0>>
    [] p.justify \in {"around", "evenly"} ->
         [k \in 1..2 |->
            spacing(p, r)[k] \div (IF p.justify = "around" THEN 2 ELSE 1)]
    [] OTHER -> <<0, 0>>

\* mainPos when child i (1-based) is rendered: rect.x or rect.y, then
\* mainPos += initialOffset, then mainPos += size + gap + (... ? spacing : 0)
\* for every child before i
RECURSIVE mainPos(_, _, _)
mainPos(p, r, i) ==
  IF i = 1
  THEN Plus(<<(IF isRow(p) THEN r.x ELSE r.y) * Den(p), 0>>,
            initialOffset(p, r), Den(p))
  ELSE Plus(mainPos(p, r, i - 1),
            Plus(<<(sizes(p, r)[i - 1] + p.gap) * Den(p), 0>>,
                 IF p.justify \in {"between", "around", "evenly"}
                 THEN spacing(p, r) ELSE <<0, 0>>,
                 Den(p)),
            Den(p))

\* childCrossSize after the constraints and the align override
childCrossSize(p, r, child) ==
  LET fixedCrossSize == IF isRow(p) THEN child.height ELSE child.width
      minCrossSize == IF isRow(p) THEN child.minHeight ELSE child.minWidth
      maxCrossSize == IF isRow(p) THEN child.maxHeight ELSE child.maxWidth
      c0 == IF fixedCrossSize # Unset THEN fixedCrossSize ELSE crossSize(p, r)
      c1 == IF minCrossSize # Unset THEN Math_max(c0, minCrossSize) ELSE c0
      c2 == IF maxCrossSize # Unset THEN Math_min(c1, maxCrossSize) ELSE c1
  IN IF p.align # "stretch" /\ fixedCrossSize = Unset
     THEN crossSize(p, r)
     ELSE c2

\* Math.floor(crossPos)
crossPos(p, r, child) ==
  LET base == IF isRow(p) THEN r.y ELSE r.x
      free == crossSize(p, r) - childCrossSize(p, r, child)
  IN CASE p.align = "end" -> base + free
       [] p.align = "center" -> (2 * base + free) \div 2
       [] OTHER -> base

childRect(p, r, i) ==
  LET child == p.children[i]
      m == Math_floor(mainPos(p, r, i), Den(p))
      c == crossPos(p, r, child)
      size == sizes(p, r)[i]
      cross == childCrossSize(p, r, child)
  IN IF isRow(p) THEN Rect(m, c, size, cross) ELSE Rect(c, m, cross, size)

\* the rects handed to child.component.render(canvas, childRect), in order
flexRender(p, r) == [i \in 1..Len(p.children) |-> childRect(p, r, i)]

\* Flex(props), not rendered yet
Flex(p, r) ==
  /\ flexProps = p
  /\ flexRect = r
  /\ childRects = <<>>
  /\ rendered = FALSE

\* Flex(props).render(canvas, rect)
FlexRender ==
  /\ childRects' = flexRender(flexProps, flexRect)
  /\ rendered' = TRUE
  /\ UNCHANGED <<flexProps, flexRect, cvars, ivars, svars>>

(***************************************************************************)
(* Spec: frames of drawing operations followed by render() / fullRender()  *)
(***************************************************************************)
HeldInit == [i \in HeldIds |-> [Cell(ChB, Undef, Undef, Undef) EXCEPT !.id = i]]
CellA == Cell(ChA, Undef, Undef, Undef)

Init ==
  /\ Canvas(MaxW, MaxH)
  /\ held = HeldInit
  /\ KeyboardInput
  /\ Flex(DefaultProps, Rect(0, 0, 0, 0))
  /\ Caller(<<>>)

Next ==
  \/ \E x \in 0..(MaxW - 1), y \in 0..(MaxH - 1), c \in {CellA} \cup {held[i] : i \in HeldIds} :
       Set(x, y, c)
  \/ \E x \in 0..(MaxW - 1), s \in {<<ChA>>, <<ChWide>>} : Text(x, 0, s, Plain)
  \/ Text(0, 0, <<ChA>>, Loud)
  \/ HLine(0, 0, MaxW, ChA, Plain)
  \/ VLine(0, 0, MaxH, ChA, Plain)
  \/ Fill(0, 0, MaxW, MaxH, SP, Loud)
  \/ Clear
  \/ \E w \in 1..MaxW : Resize(w, MaxH)
  \/ PushClip([x |-> 0, y |-> 0, width |-> 1, height |-> 1])
  \/ PopClip
  \/ Render
  \/ FullRender

Spec == Init /\ [][Next]_vars

(***************************************************************************)
(* SpecBuf: set / get / pushClip / popClip over every coordinate, in and   *)
(* out of bounds, across buffer swaps                                      *)
(***************************************************************************)
ClipRects == {[x |-> x, y |-> 0, width |-> w, height |-> MaxH] :
                x \in 0..1, w \in 1..MaxW}

NextBuf ==
  \/ \E x \in (-1)..MaxW, y \in (-1)..MaxH,
        c \in {CellA} \cup {held[i] : i \in HeldIds} : Set(x, y, c)
  \/ \E r \in ClipRects : PushClip(r)
  \/ PopClip
  \/ Render

SpecBuf == Init /\ [][NextBuf]_vars

(***************************************************************************)
(* SpecText: one text() call with any string of up to MaxStr code points,  *)
(* on a fresh canvas or over a row drawn by hline()                        *)
(***************************************************************************)
TextChars == {ChA, ChWide, ChComb, ChEsc, ChLBr, ChM}

RECURSIVE Strings(_)
Strings(n) ==
  IF n = 0 THEN {<<>>}
  ELSE LET shorter == Strings(n - 1)
       IN shorter \cup {Append(t, c) : t \in shorter, c \in TextChars}

InitText ==
  /\ \E w \in 1..MaxTextW : Canvas(w, MaxH)
  /\ held = HeldInit
  /\ KeyboardInput
  /\ Flex(DefaultProps, Rect(0, 0, 0, 0))
  /\ Caller(<<>>)

NextText ==
  \/ last.op = "new" /\ HLine(0, 0, width, ChB, Plain)
  \/ /\ last.op # "text"
     /\ \E x \in (-1)..MaxTextW, y \in 0..(MaxH - 1), t \in Strings(MaxStr),
           o \in {Plain, Loud} : Text(x, y, t, o)

SpecText == InitText /\ [][NextText]_vars

(***************************************************************************)
(* SpecInput: the reader loop over every stream of chunks of up to         *)
(* MaxChunk bytes, ending or failing at any point, with stop() and one        *)
(* handler                                                                 *)
(***************************************************************************)
InputBytes == {27, 91, 65}

RECURSIVE Chunks(_)
Chunks(n) ==
  IF n = 0 THEN {<<>>}
  ELSE LET shorter == Chunks(n - 1)
       IN shorter \cup {Append(t, c) : t \in shorter, c \in InputBytes}

Results ==
  {Data(c) : c \in Chunks(MaxChunk) \ {<<>>}} \cup {Eof}
    \cup {Rejected(e) : e \in ErrorNames}

NextInput ==
  \/ Start
  \/ \E r \in Results : Len(bytesRead) + Len(r.chunk) <= MaxBytes /\ MainRead(r)
  \/ \E r \in Results : Len(bytesRead) + Len(r.chunk) <= MaxBytes /\ RaceRead(r)
  \/ RaceTimeout
  \/ \E a \in {Quiet, Stopper} : CallHandler(a)
  \/ EmitEnd
  \/ pc = "idle" /\ handlers = <<>> /\ OnKey(1)
  \/ Unsubscribe(1)
  \/ Stop

SpecInput == Init /\ [][NextInput]_vars

(***************************************************************************)
(* SpecEmit: emit() passes over up to MaxHandlers handlers that may        *)
(* register, unsubscribe and stop from inside the pass                     *)
(***************************************************************************)
HandlerActs ==
  {Quiet, Stopper} \cup {Unsub(h) : h \in HandlerIds} \cup {Reg(h) : h \in HandlerIds}

NextEmit ==
  \/ Start
  \/ Len(events) < MaxPasses /\ MainRead(Data(<<65>>))
  \/ Len(events) < MaxPasses /\ MainRead(Data(<<27>>))
  \/ RaceTimeout
  \/ \E a \in HandlerActs : CallHandler(a)
  \/ EmitEnd
  \/ \E h \in HandlerIds : OnKey(h)
  \/ \E h \in HandlerIds : Unsubscribe(h)

SpecEmit == Init /\ [][NextEmit]_vars

(***************************************************************************)
(* SpecParse: the reader decodes one chunk: any single byte, any           *)
(* ESC [ p ; m f with p up to MaxParam and m up to MaxMod, and any chunk   *)
(* of 2..MaxOdd bytes over OddBytes                                        *)
(***************************************************************************)
RECURSIVE Dec(_)
Dec(n) == IF n < 10 THEN <<48 + n>> ELSE Dec(n \div 10) \o <<48 + (n % 10)>>

SingleBytes == {<<b>> : b \in 0..255}

Params == {Dec(n) : n \in 0..MaxParam} \cup {<<48, 50>>}
Mods == {Dec(n) : n \in 0..MaxMod}
Finals == {65, 66, 67, 68, 69, 70, 72, 80, 81, 82, 83, 126}
CsiModChunks ==
  {<<27, 91>> \o p \o <<59>> \o m \o <<f>> : p \in Params, m \in Mods, f \in Finals}

OddBytes == {27, 65, 79, 80, 91, 128, 160, 169, 189, 195, 228, 255}

RECURSIVE OddSeqs(_)
OddSeqs(n) ==
  IF n = 0 THEN {<<>>}
  ELSE LET shorter == OddSeqs(n - 1)
       IN shorter \cup {Append(t, c) : t \in shorter, c \in OddBytes}

OddChunks == {c \in OddSeqs(MaxOdd) : Len(c) >= 2}

ParseChunks == SingleBytes \cup CsiModChunks \cup OddChunks

NextParse ==
  \/ Start
  \/ events = <<>> /\ \E c \in ParseChunks : MainRead(Data(c))
  \/ RaceTimeout
  \/ EmitEnd

SpecParse == Init /\ [][NextParse]_vars

(***************************************************************************)
(* SpecFlex: one Flex (Row / Column) of up to MaxChildren children, built  *)
(* from every combination of direction, justify, align and gap, rendered   *)
(* into a rect; each child sets at most MaxFields of its optional fields   *)
(***************************************************************************)
FixedSizes == {4}
Factors == {2}
Mins == {1}
Maxes == {2}
Lengths == {2, 5}
Gaps == {0, 1}

Opt(S) == S \cup {Unset}

FieldCount(c) == Cardinality({f \in DOMAIN c : c[f] # Unset})

FlexChildren ==
  {c \in [width : Opt(FixedSizes), height : Opt(FixedSizes),
          flex : Opt(Factors),
          minWidth : Opt(Mins), minHeight : Opt(Mins),
          maxWidth : Opt(Maxes), maxHeight : Opt(Maxes)] :
     FieldCount(c) <= MaxFields}

ChildLists == UNION {[1..n -> FlexChildren] : n \in 0..MaxChildren}

FlexOptions ==
  {FlexProps("row", j, a, g, <<>>) : j \in Justifies, a \in Aligns, g \in Gaps}

\* the component is built with Row() or with Column()
FlexOf(d, cs, o) == IF d = "row" THEN Row(cs, o) ELSE Column(cs, o)

\* a wide rect and a tall one
FlexRects ==
  {Rect(1, 2, wh[1], wh[2]) : wh \in {s \in Lengths \X Lengths : s[1] # s[2]}}

InitFlex ==
  /\ Canvas(MaxW, MaxH)
  /\ held = HeldInit
  /\ KeyboardInput
  /\ \E d \in Directions, cs \in ChildLists, o \in FlexOptions, r \in FlexRects :
       Flex(FlexOf(d, cs, o), r)
  /\ Caller(<<>>)

NextFlex == FlexRender

SpecFlex == InitFlex /\ [][NextFlex]_vars

(***************************************************************************)
(* SpecPlace: one Row or Column of up to MaxPlaced children, each of a     *)
(* fixed main size or growing, with or without a max, under every justify  *)
(* policy and gap, rendered into a rect of main length 5 or 7              *)
(***************************************************************************)
PlacedSizes == {0, 1, 2}
PlacedLengths == {5, 7}

NoFields ==
  [width |-> Unset, height |-> Unset, flex |-> Unset,
   minWidth |-> Unset, minHeight |-> Unset,
   maxWidth |-> Unset, maxHeight |-> Unset]

\* { component, width: s, height: s }
Sized(s) == [NoFields EXCEPT !.width = s, !.height = s]

\* { component, flex: f, maxWidth: mx, maxHeight: mx }
Growing(f, mx) == [NoFields EXCEPT !.flex = f, !.maxWidth = mx, !.maxHeight = mx]

PlacedChildren ==
  {Sized(s) : s \in PlacedSizes}
    \cup {Growing(f, Unset) : f \in Opt(Factors)}
    \cup {Growing(Unset, mx) : mx \in Maxes}

PlacedLists == UNION {[1..n -> PlacedChildren] : n \in 0..MaxPlaced}

InitPlace ==
  /\ Canvas(MaxW, MaxH)
  /\ held = HeldInit
  /\ KeyboardInput
  /\ \E d \in Directions, cs \in PlacedLists, j \in Justifies, g \in Gaps,
        l \in PlacedLengths :
       Flex(FlexOf(d, cs, FlexProps("row", j, "stretch", g, <<>>)),
            Rect(1, 2, l, l))
  /\ Caller(<<>>)

NextPlace == FlexRender

SpecPlace == InitPlace /\ [][NextPlace]_vars

(***************************************************************************)
(* SpecStyle: styled and plain text() at every column of a canvas one      *)
(* column wider, so that changed cells can lie apart, and render()         *)
(***************************************************************************)
InitStyle ==
  /\ Canvas(MaxW + 1, MaxH)
  /\ held = HeldInit
  /\ KeyboardInput
  /\ Flex(DefaultProps, Rect(0, 0, 0, 0))
  /\ Caller(<<>>)

NextStyle ==
  \/ \E x \in 0..MaxW, o \in {Plain, Loud} : Text(x, 0, <<ChA>>, o)
  \/ Render

SpecStyle == InitStyle /\ [][NextStyle]_vars

(***************************************************************************)
(* SpecStrip: stripAnsi() applied again and again, and visibleLength(), on *)
(* every string of up to MaxStripLen code points that can hold escapes     *)
(***************************************************************************)
StripChars == {ChEsc, ChLBr, ChM, ChA}

RECURSIVE StripStrings(_)
StripStrings(n) ==
  IF n = 0 THEN {<<>>}
  ELSE LET shorter == StripStrings(n - 1)
       IN shorter \cup {Append(t, c) : t \in shorter, c \in StripChars}

InitStrip ==
  /\ Canvas(MaxW, MaxH)
  /\ held = HeldInit
  /\ KeyboardInput
  /\ Flex(DefaultProps, Rect(0, 0, 0, 0))
  /\ \E s \in StripStrings(MaxStripLen) : Caller(s)

NextStrip ==
  \/ StripAnsi
  \/ VisibleLength

SpecStrip == InitStrip /\ [][NextStrip]_vars

(***************************************************************************)
(* Properties of the canvas                                                *)
(***************************************************************************)
Cells == (0..(width - 1)) \X (0..(height - 1))
NoClip == Len(clipStack) = 0
InRect(r, x, y) ==
  r.x <= x /\ x < r.x + r.width /\ r.y <= y /\ y < r.y + r.height

\* C1: with no clip rectangle active, get(x,y) right after set(x,y,c) returns
\* exactly c when (x,y) is in bounds; when it is out of bounds set changes no
\* cell of either grid and get returns undefined.
GetAt == [p \in ((-1)..MaxW) \X ((-1)..MaxH) |-> get(p[1], p[2])]

C1_SetGet ==
  [][(last'.op = "set" /\ NoClip) =>
       LET x == last'.x
           y == last'.y
       IN IF x >= 0 /\ x < width /\ y >= 0 /\ y < height
          THEN GetAt'[<<x, y>>] = last'.cell
          ELSE /\ bufferA' = bufferA /\ bufferB' = bufferB
               /\ GetAt'[<<x, y>>] = Undefined]_vars

C1_Witness ==
  /\ last.op = "set" /\ NoClip /\ nframes > 0
  /\ InBounds(last.x, last.y) /\ get(last.x, last.y) = last.cell
  /\ last.cell.char # SP

\* C2: with a non-empty clip stack, set(x,y,c) writes c at (x,y) iff (x,y) is
\* in bounds and inside the top-of-stack rectangle, and otherwise changes
\* nothing; lower rectangles have no effect; popClip removes only the top
\* rectangle, so the one below governs again.
C2_TopClip ==
  [][/\ (last'.op = "set" /\ ~NoClip) =>
          LET x == last'.x
              y == last'.y
              top == clipStack[Len(clipStack)]
          IN IF InBounds(x, y) /\ InRect(top, x, y)
             THEN Buffer' = [Buffer EXCEPT ![y][x] = last'.cell]
             ELSE Buffer' = Buffer
     /\ (last'.op = "set" /\ NoClip /\ InBounds(last'.x, last'.y)) =>
          Buffer' = [Buffer EXCEPT ![last'.y][last'.x] = last'.cell]
     /\ last'.op = "popClip" =>
          \/ clipStack = <<>> /\ clipStack' = <<>>
          \/ clipStack # <<>> /\ clipStack = Append(clipStack', clipStack[Len(clipStack)])
     /\ last'.op = "pushClip" => clipStack' = Append(clipStack, last'.rect)]_vars

\* a write inside the top rectangle but outside the one below it was applied
C2_Witness ==
  /\ last.op = "set" /\ Len(clipStack) = 2
  /\ InBounds(last.x, last.y)
  /\ InRect(clipStack[2], last.x, last.y)
  /\ ~InRect(clipStack[1], last.x, last.y)
  /\ Buffer[last.y][last.x] = last.cell
  /\ last.cell.char # SP

(***************************************************************************)
(* Diff rendering                                                          *)
(***************************************************************************)
Rendered == last.op \in {"render", "fullRender"}

\* the terminal shows cell c at (x, y); a width-2 glyph also covers x + 1
ShownAs(x, y, c) ==
  LET t == term.grid[y][x]
  IN /\ t.char = c.char /\ t.fg = c.fg /\ t.bg = c.bg /\ t.style = c.style
     /\ charWidth(c.char) = 2 => term.grid[y][x + 1].char = Cont

ScreenMatches(g) ==
  \A p \in Cells : g[p[2]][p[1]].char # Empty => ShownAs(p[1], p[2], g[p[2]][p[1]])

\* the cells at which the stream toks places a glyph, following the cursor
RECURSIVE StreamCells(_, _, _)
StreamCells(toks, cx, cy) ==
  IF toks = <<>> THEN {}
  ELSE LET k == Head(toks)
       IN IF k.t = "to" THEN StreamCells(Tail(toks), k.a, k.b)
          ELSE IF k.t = "char"
            THEN {<<cx, cy>>} \cup
                 StreamCells(Tail(toks), cx + (IF charWidth(k.a) > 1 THEN 2 ELSE 1), cy)
          ELSE StreamCells(Tail(toks), cx, cy)

Emitted == StreamCells(output, -1, -1)
Glyphs(toks) == {toks[i].a : i \in {j \in 1..Len(toks) : toks[j].t = "char"}}

\* C3: after each render() the terminal, having applied the emitted stream
\* on top of the previous screen, shows at every in-bounds cell the glyph,
\* fg, bg and style of the buffer that was just rendered.
C3_DiffSound == Rendered => ScreenMatches(PrevGrid)

\* C4: a render() that immediately follows fullRender() emits no output.
C4_RenderAfterFullRender ==
  [][(last.op = "fullRender" /\ last'.op = "render") => output' = <<>>]_vars

\* C5: resize(w,h) sets the dimensions, blanks the current buffer and discards
\* the snapshot; the snapshot stays discarded until the next render(), which
\* then emits every non-placeholder cell of the buffer.
C5_Resize ==
  [][/\ last'.op = "resize" =>
          /\ width' = last'.x /\ height' = last'.y
          /\ prevBuffer' = "null"
          /\ Buffer' = [y \in 0..(height' - 1) |-> [x \in 0..(width' - 1) |-> BlankCell]]
     /\ (prevBuffer = "null" /\ ~Rendered') => prevBuffer' = "null"
     /\ (prevBuffer = "null" /\ Rendered') =>
          Emitted' = {p \in Cells : Buffer[p[2]][p[1]].char # Empty}]_vars

\* a render after a resize that followed earlier frames, with drawn cells
C5_Witness ==
  /\ last.op = "render" /\ nframes >= 2
  /\ Emitted = Cells
  /\ \E p \in Cells : PrevGrid[p[2]][p[1]].char # SP
  /\ width < MaxW

\* C6: in every reachable state each cell holding a width-2 glyph is followed
\* in its row by an empty placeholder cell, and render() never emits a
\* placeholder.
WideHasPlaceholder(g) ==
  \A p \in Cells :
    charWidth(g[p[2]][p[1]].char) = 2 =>
      (p[1] + 1 < width /\ g[p[2]][p[1] + 1].char = Empty)

C6_WidePlaceholder ==
  /\ WideHasPlaceholder(Buffer)
  /\ Empty \notin Glyphs(output)

(***************************************************************************)
(* text()                                                                  *)
(***************************************************************************)
\* the sum of the widths of the first n code points of t
PrefixWidth(t, n) == SumWidth(SubSeq(t, 1, n))

\* the buffer after text(x, y, .., o) has written the glyphs of t
TextWrote(t, x, y, o) ==
  LET glyphAt(col) == {i \in 1..Len(t) :
                         charWidth(t[i]) > 0 /\ col = x + PrefixWidth(t, i - 1)}
      holderAt(col) == {i \in 1..Len(t) :
                          charWidth(t[i]) = 2 /\ col = x + PrefixWidth(t, i - 1) + 1}
  IN /\ \A p \in Cells :
          Buffer'[p[2]][p[1]] =
            IF p[2] = y /\ glyphAt(p[1]) # {}
              THEN Cell(t[CHOOSE i \in glyphAt(p[1]) : TRUE], o.fg, o.bg, o.style)
            ELSE IF p[2] = y /\ holderAt(p[1]) # {}
              THEN Cell(Empty, o.fg, o.bg, Undef)
            ELSE Buffer[p[2]][p[1]]
     /\ {c \in 0..(width - 1) : glyphAt(c) # {} \/ holderAt(c) # {}}
          = {c \in 0..(width - 1) : x <= c /\ c <= x + visibleLength(last'.str) - 1}

TextHasRoom ==
  /\ last'.op = "text" /\ NoClip
  /\ last'.x >= 0 /\ last'.x + visibleLength(last'.str) <= width
  /\ last'.y >= 0 /\ last'.y < height

\* C7 as stated: the glyphs written are those of s itself
C7_TextGlyphsOfS ==
  [][TextHasRoom => TextWrote(last'.str, last'.x, last'.y, last'.opt)]_vars

\* C7 amended: text(x,y,s) with no clip and enough room writes the k-th
\* non-zero-width glyph of stripAnsi(s) at column x + (widths before it), an
\* empty placeholder right after each width-2 glyph, nothing for zero-width
\* glyphs, and changes no other cell; the columns touched are exactly
\* x .. x+visibleLength(s)-1.
C7_TextGlyphs ==
  [][TextHasRoom => TextWrote(stripAnsi(last'.str), last'.x, last'.y, last'.opt)]_vars

\* a wide glyph after a narrow one, over a drawn row
C7_Witness ==
  /\ last.op = "text" /\ NoClip
  /\ last.str = <<ChA, ChComb, ChWide>> /\ last.x = 1 /\ width = 4
  /\ Buffer[0][0].char = ChB
  /\ Buffer[0][1].char = ChA /\ Buffer[0][2].char = ChWide /\ Buffer[0][3].char = Empty

(***************************************************************************)
(* Properties of the reader loop                                           *)
(***************************************************************************)
RECURSIVE RawConcat(_)
RawConcat(evs) ==
  IF evs = <<>> THEN <<>> ELSE Head(evs).raw \o RawConcat(Tail(evs))

LastEvent == events[Len(events)]
NewBytes == SubSeq(bytesRead', Len(bytesRead) + 1, Len(bytesRead'))

\* the race of a lone ESC is decided by this step, with stop() not called and
\* no read failing
RaceDecided == pc = "race" /\ pc' # "race" /\ running /\ lastResult' # "error"

\* C8: whenever the loop has received the lone byte 0x1B, the step that decides
\* the race emits exactly one event: the bare Escape event when the timer
\* fired first, otherwise the decode of 0x1B followed by the newly read chunk;
\* after a timeout the outstanding read is kept and is the read the next
\* iteration awaits, no new read being issued.
C8_EscapeRace ==
  [][/\ RaceDecided =>
          /\ Len(events') = Len(events) + 1
          /\ IF lastResult' = "timeout"
               THEN LastEvent' = parseKeyEvent(<<27>>) /\ carry' = awaited
               ELSE LastEvent' = parseKeyEvent(<<27>> \o NewBytes)
     /\ (pc = "emit" /\ carry # NoRead /\ pc' = "awaitMain") =>
          awaited' = carry /\ nissued' = nissued]_vars

\* the race was decided by end of input, stop() not called and no read failing
C8_Witness ==
  /\ running /\ pc = "done" /\ lastResult = "eof"
  /\ bytesRead # <<>> /\ bytesRead[Len(bytesRead)] = 27
  /\ curBytes = <<27>> /\ nissued >= 2

\* C9: with stop() not called and no read failing, the raw fields of the
\* emitted events, concatenated in emission order and followed by the lone ESC
\* the loop is still holding during a race, are exactly the bytes the settled
\* reads returned, in order; so each byte read is in exactly one event.
C9_NoByteDropped ==
  (running /\ lastResult # "error") =>
     RawConcat(events) \o (IF pc = "race" THEN curBytes ELSE <<>>) = bytesRead

\* the bytes this step takes out of this.readBuffer for decoding
Sliced == IF pc = "race" THEN Tail(LastEvent'.raw) ELSE curBytes'

\* C30: in every reachable state at most one stdin read issued by the loop is
\* outstanding, whether it is the main read, the read raced against the
\* Escape timer or the pending read carried over from a timed-out race; and
\* the step that slices this.readBuffer for decoding takes exactly the bytes
\* of the read that has just completed, with no later read in flight.
C30_OneReadOutstanding ==
  /\ [](Len(outstanding) <= 1)
  /\ [][NewBytes # <<>> =>
          /\ outstanding = <<awaited>>
          /\ Sliced = NewBytes]_vars

\* the read carried over from a timed-out race was awaited by the next
\* iteration, completed with data and was decoded, with no third read issued
C30_Witness ==
  /\ nissued = 2 /\ outstanding = <<>>
  /\ Len(events) = 2 /\ events[1].key = Keys.Escape
  /\ lastResult = "data" /\ pc = "emit" /\ LastEvent.raw = curBytes

(***************************************************************************)
(* Properties of emit()                                                    *)
(***************************************************************************)
Count(q, h) == Cardinality({i \in 1..Len(q) : q[i] = h})
Only(q, S) == SelectSeq(q, LAMBDA h : h \in S)
PassOver == pc # "emit" \/ ei > Len(handlers)

\* registered once when the pass started, never removed and never registered
\* again during the pass
Stayed ==
  {h \in HandlerIds : Count(passStart, h) = 1 /\ h \notin unreg
                       /\ Count(handlers, h) = 1}

\* C10: when a notification pass is over, every handler that was registered
\* when it started and was not unregistered during it has been invoked exactly
\* once, and these handlers were invoked in registration order, whatever the
\* handlers registered or unregistered during the pass.
C10_PassComplete ==
  (PassOver /\ events # <<>>) =>
     /\ \A h \in Stayed : Count(invoked, h) = 1
     /\ Only(invoked, Stayed) = Only(passStart, Stayed)

(***************************************************************************)
(* stop() and the end of the loop                                          *)
(***************************************************************************)
Stopped == pc # "idle" /\ ~running
AfterStop == Len(events) - stopAt

\* C11: once stop() has been called on a running reader, at most one further
\* event is handed to the listeners, whichever of the main read, the raced
\* read or the timer settles next; and once the pass of that event is over
\* the loop has exited.
C11_StopOneMore ==
  Stopped =>
    /\ AfterStop <= 1
    /\ AfterStop = 1 => pc \in {"emit", "done"}

\* stop() during the Escape race, then the timer: one more event, loop exited
C11_Witness ==
  /\ Stopped /\ AfterStop = 1 /\ pc = "done"
  /\ lastResult = "timeout" /\ LastEvent.key = Keys.Escape
  /\ pendingRead # NoRead

\* C12: when a read returns end-of-stream, or fails with Interrupted or
\* BadResource, start() resolves and does not reject; this holds for the main
\* read, for the read raced against the Escape timer and for the pending
\* read carried over from a timed-out race.
C12_EndsWithoutRaising ==
  (\/ lastResult = "eof"
   \/ lastResult = "error" /\ lastError \in {"Interrupted", "BadResource"})
    => pc = "done"

\* the read carried over from a timed-out race fails with BadResource while
\* the reader is still running
C12_Witness ==
  /\ running /\ pc = "done"
  /\ lastResult = "error" /\ lastError = "BadResource"
  /\ Len(events) = 1 /\ LastEvent.key = Keys.Escape /\ nissued = 2

(***************************************************************************)
(* Properties of the key decoder.  Decoded: the reader has just decoded    *)
(* the chunk curBytes into LastEvent.                                      *)
(***************************************************************************)
Decoded == pc = "emit" /\ Len(events) = 1 /\ LastEvent.raw = curBytes
NoFlags(e) == ~e.ctrl /\ ~e.alt /\ ~e.shift /\ ~e.meta

\* C13: every single-byte chunk b with 0x01 <= b <= 0x1A decodes to the
\* lowercase letter with code b + 0x60, with ctrl set and alt, shift and meta
\* clear; no other rule applies first, so 0x0D is 'm' with ctrl and 0x09 is
\* 'i' with ctrl.
C13_CtrlLetter ==
  (Decoded /\ Len(curBytes) = 1 /\ curBytes[1] >= 1 /\ curBytes[1] <= 26) =>
     /\ LastEvent.key = <<curBytes[1] + 96>>
     /\ LastEvent.ctrl /\ ~LastEvent.alt /\ ~LastEvent.shift /\ ~LastEvent.meta
     /\ LastEvent.key \notin {Keys.Enter, Keys.Tab, Keys.Backspace}

C13_Witness ==
  Decoded /\ curBytes = <<13>> /\ LastEvent.key = <<109>> /\ LastEvent.ctrl

\* what C14 says of the single bytes outside 0x01..0x1A
OtherSingle(b) ==
  IF b = 127 THEN LastEvent.key = Keys.Backspace /\ NoFlags(LastEvent)
  ELSE IF b = 27 THEN LastEvent.key = Keys.Escape /\ NoFlags(LastEvent)
  ELSE IF b = 0
    THEN /\ LastEvent.key = <<32>> /\ LastEvent.ctrl
         /\ ~LastEvent.alt /\ ~LastEvent.shift /\ ~LastEvent.meta
  ELSE /\ LastEvent.key = <<b>>
       /\ LastEvent.shift <=> (b >= 65 /\ b <= 90)
       /\ ~LastEvent.ctrl /\ ~LastEvent.alt /\ ~LastEvent.meta

\* C14 as stated: 0x7F and 0x08 each decode to Backspace, 0x1B to Escape,
\* 0x00 to ' ' with ctrl, and any other single byte to its literal character
\* with shift exactly for an uppercase ASCII letter.
C14_SingleBytesWith08 ==
  (Decoded /\ Len(curBytes) = 1) =>
     IF curBytes[1] = 8 THEN LastEvent.key = Keys.Backspace
     ELSE (curBytes[1] < 1 \/ curBytes[1] > 26) => OtherSingle(curBytes[1])

\* C14 amended: 0x7F decodes to Backspace, 0x1B to Escape, 0x00 to ' ' with
\* ctrl; 0x08 lies in the Ctrl+letter range and decodes to 'h' with ctrl, not
\* to Backspace; any single byte above 0x1A other than 0x1B and 0x7F decodes
\* to its literal character with shift exactly for an uppercase ASCII letter.
C14_SingleBytes ==
  (Decoded /\ Len(curBytes) = 1) =>
     IF curBytes[1] = 8
       THEN LastEvent.key = <<104>> /\ LastEvent.ctrl /\ ~LastEvent.shift
     ELSE (curBytes[1] < 1 \/ curBytes[1] > 26) => OtherSingle(curBytes[1])

C14_Witness ==
  Decoded /\ curBytes = <<90>> /\ LastEvent.key = <<90>> /\ LastEvent.shift

\* the keys the claim names: by final letter, and by parameter before '~'
ExpLetter ==
  [f \in {65, 66, 67, 68, 72, 70} |->
     CASE f = 65 -> Keys.Up [] f = 66 -> Keys.Down [] f = 67 -> Keys.Right
       [] f = 68 -> Keys.Left [] f = 72 -> Keys.Home [] f = 70 -> Keys.End]
ExpTilde ==
  [n \in {2, 3, 5, 6, 11, 12, 13, 14, 15, 17, 18, 19, 20, 21, 23, 24} |->
     CASE n = 2 -> Keys.Insert [] n = 3 -> Keys.Delete [] n = 5 -> Keys.PageUp
       [] n = 6 -> Keys.PageDown [] n = 11 -> Keys.F1 [] n = 12 -> Keys.F2
       [] n = 13 -> Keys.F3 [] n = 14 -> Keys.F4 [] n = 15 -> Keys.F5
       [] n = 17 -> Keys.F6 [] n = 18 -> Keys.F7 [] n = 19 -> Keys.F8
       [] n = 20 -> Keys.F9 [] n = 21 -> Keys.F10 [] n = 23 -> Keys.F11
       [] n = 24 -> Keys.F12]
NamedKeys == {Keys[k] : k \in DOMAIN Keys}

\* shift, alt, ctrl, meta of LastEvent are bits 0, 1, 2, 3 of n
FlagsAreBits(n) ==
  /\ LastEvent.shift <=> (n \div 1) % 2 = 1
  /\ LastEvent.alt <=> (n \div 2) % 2 = 1
  /\ LastEvent.ctrl <=> (n \div 4) % 2 = 1
  /\ LastEvent.meta <=> (n \div 8) % 2 = 1

\* the chunk just decoded is ESC [ p ; m f: its p, m and f
IsModChunk ==
  /\ Decoded /\ Len(curBytes) >= 6 /\ curBytes[1] = 27 /\ curBytes[2] = 91
  /\ \E i \in 4..(Len(curBytes) - 2) : curBytes[i] = 59
SemiAt == CHOOSE i \in 4..(Len(curBytes) - 2) : curBytes[i] = 59
ChunkP == SubSeq(curBytes, 3, SemiAt - 1)
ChunkM == SubSeq(curBytes, SemiAt + 1, Len(curBytes) - 1)
ChunkF == curBytes[Len(curBytes)]
IsNumeral(d) == d # <<>> /\ \A i \in 1..Len(d) : d[i] >= 48 /\ d[i] <= 57

ValidOneChar(b) ==
  LET cont(i) == b[i] >= 128 /\ b[i] <= 191
  IN \/ Len(b) = 1 /\ b[1] <= 127
     \/ Len(b) = 2 /\ b[1] >= 194 /\ b[1] <= 223 /\ cont(2)
     \/ /\ Len(b) = 3 /\ b[1] >= 224 /\ b[1] <= 239 /\ cont(2) /\ cont(3)
        /\ b[1] = 224 => b[2] >= 160
        /\ b[1] = 237 => b[2] <= 159
     \/ /\ Len(b) = 4 /\ b[1] >= 240 /\ b[1] <= 244 /\ cont(2) /\ cont(3) /\ cont(4)
        /\ b[1] = 240 => b[2] >= 144
        /\ b[1] = 244 => b[2] <= 143

\* b is decoded by one of the key rules: single byte, ESC + char, CSI, SS3
MatchesRule(b) ==
  \/ Len(b) = 1
  \/ Len(b) = 2 /\ b[1] = 27 /\ b[2] >= 32
  \/ Len(b) >= 3 /\ b[1] = 27 /\ b[2] = 91 /\ CsiEvent(b).key # <<>>
  \/ Len(b) >= 3 /\ b[1] = 27 /\ b[2] = 79 /\ b[3] \in {80, 81, 82, 83}

\* C16: a chunk that matches none of the key rules and is not a valid
\* encoding of one character decodes to an event whose key is the empty
\* string.
C16_InvalidGivesEmptyKey ==
  (Decoded /\ ~MatchesRule(curBytes) /\ ~ValidOneChar(curBytes)) =>
     LastEvent.key = <<>>

\* C28: whenever the decode matches no key rule and falls through to the
\* multi-byte-character rule, ctrl, alt, shift and meta of the returned
\* event are all false.
C28_FallthroughNoFlags ==
  (Decoded /\ ~MatchesRule(curBytes)) => NoFlags(LastEvent)

\* the registrations of h in hs
Registered(hs, h) == {i \in 1..Len(hs) : hs[i] = h}

\* hs without its last registration of h: the one the latest onKey(h) pushed
WithoutLatest(hs, h) ==
  RemoveAt(hs, CHOOSE i \in Registered(hs, h) : \A j \in Registered(hs, h) : j <= i)

\* C29: the unsubscribe function returned by onKey(h) removes exactly the
\* registration it was returned for, and calling it again, or calling it
\* while the same handler is also registered by another onKey call, never
\* removes any other registration.  The function called for h is the one
\* the latest onKey(h) returned.
C29_UnsubscribeExact ==
  [][\A h \in HandlerIds :
       /\ (h \in spent /\ h \in spent') =>
             Cardinality(Registered(handlers', h)) >= Cardinality(Registered(handlers, h))
       /\ (h \notin spent /\ h \in spent' /\ Registered(handlers, h) # {}) =>
             handlers' = WithoutLatest(handlers, h)]_vars

(***************************************************************************)
(* Properties of the Flex layout                                           *)
(***************************************************************************)
NChildren == Len(flexProps.children)
MainOf(r) == IF flexProps.direction = "row" THEN r.width ELSE r.height
MainStartOf(r) == IF flexProps.direction = "row" THEN r.x ELSE r.y
FixedMain(c) == IF flexProps.direction = "row" THEN c.width ELSE c.height
MinMain(c) == IF flexProps.direction = "row" THEN c.minWidth ELSE c.minHeight
IsGrow(c) == FixedMain(c) = Unset
Factor(c) == IF c.flex = Unset THEN 1 ELSE c.flex

RECURSIVE FixedTotal(_)
FixedTotal(n) ==
  IF n = 0 THEN 0
  ELSE FixedTotal(n - 1)
       + (IF IsGrow(flexProps.children[n]) THEN 0
          ELSE FixedMain(flexProps.children[n]))

RECURSIVE GrowTotal(_)
GrowTotal(n) ==
  IF n = 0 THEN 0
  ELSE GrowTotal(n - 1)
       + (IF IsGrow(flexProps.children[n]) THEN Factor(flexProps.children[n])
          ELSE 0)

\* L, F, the gap sum and G of the rendered container
LenL == MainOf(flexRect)
FixF == FixedTotal(NChildren)
GapSum == IF NChildren > 0 THEN (NChildren - 1) * flexProps.gap ELSE 0
GrowG == GrowTotal(NChildren)
Remaining == LenL - FixF - GapSum

\* C17: no child rect has a negative main-axis size, and when
\* L < F + (sum of gaps) every grow child without a min constraint gets
\* main size exactly 0.
C17_NoNegativeSize ==
  rendered =>
    \A i \in 1..NChildren :
      /\ MainOf(childRects[i]) >= 0
      /\ (Remaining < 0 /\ IsGrow(flexProps.children[i])
            /\ MinMain(flexProps.children[i]) = Unset)
           => MainOf(childRects[i]) = 0

NoMainMin == \A i \in 1..NChildren : MinMain(flexProps.children[i]) = Unset

\* C18 as stated: with G > 0 and no min constraints, each grow child's main
\* size is at most floor((L - F - gaps) / G) times its factor.
C18_GrowBoundFloorFirst ==
  (rendered /\ GrowG > 0 /\ NoMainMin) =>
    \A i \in 1..NChildren :
      IsGrow(flexProps.children[i]) =>
        MainOf(childRects[i])
          <= (Remaining \div GrowG) * Factor(flexProps.children[i])

\* C18: with G > 0 and no min constraints, each grow child's main size is at
\* most floor(max(0, L - F - gaps) * factor / G): the factor is applied
\* before the floor.
C18_GrowBound ==
  (rendered /\ GrowG > 0 /\ NoMainMin) =>
    \A i \in 1..NChildren :
      IsGrow(flexProps.children[i]) =>
        MainOf(childRects[i])
          <= (Math_max(0, Remaining) * Factor(flexProps.children[i]))
               \div GrowG

\* a grow child of factor 2 got more than twice the floored unit
C18_Witness ==
  /\ rendered /\ GrowG > 0 /\ NoMainMin /\ Remaining > 0
  /\ \E i \in 1..NChildren :
       /\ IsGrow(flexProps.children[i])
       /\ Factor(flexProps.children[i]) = 2
       /\ MainOf(childRects[i]) = (Remaining * 2) \div GrowG
       /\ MainOf(childRects[i]) > (Remaining \div GrowG) * 2

BetweenTwo ==
  /\ rendered /\ flexProps.justify = "between" /\ NChildren = 2
  /\ MainOf(childRects[1]) + MainOf(childRects[2]) <= LenL

\* C19: with justify "between" and exactly two children whose main sizes sum
\* to S <= L, the first child starts at the container's start, the second
\* ends at its far edge, and exactly L - S free columns lie between them.
C19_BetweenTwo ==
  BetweenTwo =>
    LET a == childRects[1]
        b == childRects[2]
        S == MainOf(a) + MainOf(b)
    IN /\ MainStartOf(a) = MainStartOf(flexRect)
       /\ MainStartOf(b) + MainOf(b) = MainStartOf(flexRect) + LenL
       /\ MainStartOf(b) - (MainStartOf(a) + MainOf(a)) = LenL - S

\* two children that leave free columns, with a gap declared as well
C19_Witness ==
  /\ BetweenTwo
  /\ MainOf(childRects[1]) > 0 /\ MainOf(childRects[2]) > 0
  /\ MainOf(childRects[1]) + MainOf(childRects[2]) < LenL
  /\ flexProps.gap > 0
  /\ MainStartOf(childRects[2]) + MainOf(childRects[2])
       = MainStartOf(flexRect) + LenL

Within(size, min, max) ==
  /\ min # Unset => min <= size
  /\ max # Unset => size <= max

\* C20: for every child that declares a min and/or a max size, the rect it
\* is rendered with is within those bounds on the main axis and on the cross
\* axis, for every direction, justify and align.
C20_WithinMinMax ==
  rendered =>
    \A i \in 1..NChildren :
      LET c == flexProps.children[i]
      IN /\ Within(childRects[i].width, c.minWidth, c.maxWidth)
         /\ Within(childRects[i].height, c.minHeight, c.maxHeight)

(***************************************************************************)
(* Properties of stripAnsi                                                 *)
(***************************************************************************)
\* C21: stripAnsi is idempotent, stripAnsi(stripAnsi(s)) = stripAnsi(s), and
\* therefore visibleLength(stripAnsi(s)) = visibleLength(s).
C21_StripIdempotent ==
  /\ Len(strRes) >= 2 => strRes[2] = strRes[1]
  /\ Len(strLens) >= 2 => strLens[2] = strLens[1]

(***************************************************************************)
(* Properties of the render() stream                                       *)
(***************************************************************************)
\* the cell at p is no placeholder and has no equal snapshot cell in pb
Qualifies(pb, p) ==
  LET cell == Buffer[p[2]][p[1]]
      snap == (IF pb = "A" THEN bufferA ELSE bufferB)[p[2]][p[1]]
  IN /\ cell.char # Empty
     /\ \/ pb = "null"
        \/ snap.char # cell.char \/ snap.fg # cell.fg
        \/ snap.bg # cell.bg \/ snap.style # cell.style

\* the glyphs of the qualifying cells among the first i cells, row-major
RECURSIVE QualGlyphs(_, _)
QualGlyphs(pb, i) ==
  IF i = 0 THEN <<>>
  ELSE LET p == <<(i - 1) % width, (i - 1) \div width>>
       IN QualGlyphs(pb, i - 1)
            \o (IF Qualifies(pb, p) THEN <<Buffer[p[2]][p[1]].char>> ELSE <<>>)

RECURSIVE GlyphSeq(_)
GlyphSeq(toks) ==
  IF toks = <<>> THEN <<>>
  ELSE (IF Head(toks).t = "char" THEN <<Head(toks).a>> ELSE <<>>)
         \o GlyphSeq(Tail(toks))

\* C22: render() emits a glyph for cell (x,y) iff the cell is not a
\* placeholder and either there is no previous snapshot or the cell differs
\* from the snapshot cell in char, fg, bg or style; when no cell qualifies
\* nothing is written to the terminal.
C22_EmitsChanged ==
  [][last'.op \in {"render", "fullRender"} =>
       LET pb == IF last'.op = "render" THEN prevBuffer ELSE "null"
           Q == {p \in Cells : Qualifies(pb, p)}
       IN /\ StreamCells(output', -1, -1) = Q
          /\ GlyphSeq(output') = QualGlyphs(pb, width * height)
          /\ Q = {} => output' = <<>>]_vars

\* a render() over a snapshot that emitted one of two drawn cells
C22_Witness ==
  /\ last.op = "render" /\ width = 2 /\ nframes >= 2
  /\ Cardinality(Emitted) = 1
  /\ \A p \in Cells : PrevGrid[p[2]][p[1]].char # Empty

NoAttr == [style |-> Undef, fg |-> Undef, bg |-> Undef]

\* cur: the attributes the stream has set; prev: those of the glyph emitted
\* last, if any; codes: a style, fg or bg code came after that glyph
RECURSIVE RunsCompressed(_, _, _, _, _)
RunsCompressed(toks, cur, hasPrev, prev, codes) ==
  IF toks = <<>> THEN TRUE
  ELSE LET k == Head(toks)
           rest == Tail(toks)
       IN CASE k.t = "reset" -> RunsCompressed(rest, NoAttr, hasPrev, prev, codes)
            [] k.t = "style" ->
                 RunsCompressed(rest, [cur EXCEPT !.style = k.a], hasPrev, prev, TRUE)
            [] k.t = "fg" ->
                 RunsCompressed(rest, [cur EXCEPT !.fg = k.a], hasPrev, prev, TRUE)
            [] k.t = "bg" ->
                 RunsCompressed(rest, [cur EXCEPT !.bg = k.a], hasPrev, prev, TRUE)
            [] k.t = "char" ->
                 /\ (hasPrev /\ codes) => cur # prev
                 /\ RunsCompressed(rest, cur, TRUE, cur, FALSE)
            [] OTHER -> RunsCompressed(rest, cur, hasPrev, prev, codes)

\* C23: within the stream of one render(), style/colour codes come in front
\* of a glyph only when its style, fg or bg differ from those of the glyph
\* emitted immediately before, whether or not the cursor is repositioned
\* between the two.
C23_RunLength ==
  Rendered => RunsCompressed(output, NoAttr, FALSE, NoAttr, FALSE)

(***************************************************************************)
(* Placement in Flex                                                       *)
(***************************************************************************)
CrossOf(r) == IF flexProps.direction = "row" THEN r.height ELSE r.width
CrossStartOf(r) == IF flexProps.direction = "row" THEN r.y ELSE r.x
FixedCross(c) == IF flexProps.direction = "row" THEN c.height ELSE c.width
MinCross(c) == IF flexProps.direction = "row" THEN c.minHeight ELSE c.minWidth
MaxCross(c) == IF flexProps.direction = "row" THEN c.maxHeight ELSE c.maxWidth
CrossLen == CrossOf(flexRect)
CrossOffset(i) == CrossStartOf(childRects[i]) - CrossStartOf(flexRect)
Unconstrained(c) == MinCross(c) = Unset /\ MaxCross(c) = Unset

\* stretch fills the cross length at offset 0
StretchFills(i) ==
  LET c == flexProps.children[i]
  IN (flexProps.align = "stretch" /\ FixedCross(c) = Unset /\ Unconstrained(c))
       => (CrossOf(childRects[i]) = CrossLen /\ CrossOffset(i) = 0)

\* a fixed cross size is kept and offset by the align policy
FixedCrossPlaced(i) ==
  LET c == flexProps.children[i]
      free == CrossLen - FixedCross(c)
  IN (FixedCross(c) # Unset /\ Unconstrained(c))
       => /\ CrossOf(childRects[i]) = FixedCross(c)
          /\ flexProps.align = "start" => CrossOffset(i) = 0
          /\ flexProps.align = "end" => CrossOffset(i) = free
          /\ flexProps.align = "center" => CrossOffset(i) = free \div 2

\* under start / end / center a child is not stretched: one whose declared
\* cross max is below the cross length stays within that max
NotStretched(i) ==
  LET c == flexProps.children[i]
  IN (flexProps.align # "stretch" /\ FixedCross(c) = Unset
        /\ MaxCross(c) # Unset /\ MaxCross(c) < CrossLen)
       => CrossOf(childRects[i]) <= MaxCross(c)

\* C24: with align stretch a child without a fixed cross size gets the full
\* cross length at offset 0; a child with a fixed cross size c keeps c and
\* sits at cross offset 0 for start, crossLength - c for end and
\* floor((crossLength - c) / 2) for center; with align start / end / center
\* a child keeps its natural cross size instead of being stretched.
C24_CrossPlacement ==
  rendered =>
    \A i \in 1..NChildren :
      StretchFills(i) /\ FixedCrossPlaced(i) /\ NotStretched(i)

(***************************************************************************)
(* The snapshot between two render() calls                                 *)
(***************************************************************************)
\* sum of the main sizes the first n children were rendered with
RECURSIVE UsedTo(_)
UsedTo(n) == IF n = 0 THEN 0 ELSE UsedTo(n - 1) + MainOf(childRects[n])

Slack == LenL - (UsedTo(NChildren) + GapSum)

\* offset and spacing of the justify policy, as numerators over PolicyDen
PolicyDen ==
  CASE flexProps.justify = "center" -> 2
    [] flexProps.justify = "between" -> IF NChildren > 1 THEN NChildren - 1 ELSE 1
    [] flexProps.justify = "around" -> IF NChildren > 0 THEN 2 * NChildren ELSE 1
    [] flexProps.justify = "evenly" -> NChildren + 1
    [] OTHER -> 1

PolicyOffset ==
  CASE flexProps.justify \in {"end", "center", "around", "evenly"} -> Slack
    [] OTHER -> 0

PolicySpacing ==
  CASE flexProps.justify = "between" -> IF NChildren > 1 THEN Slack ELSE 0
    [] flexProps.justify = "around" -> 2 * Slack
    [] flexProps.justify = "evenly" -> Slack
    [] OTHER -> 0

\* floor(offset + sum over j < i of (size_j + gap + spacing))
PolicyStart(i) ==
  (PolicyOffset
     + PolicyDen * (UsedTo(i - 1) + (i - 1) * flexProps.gap)
     + (i - 1) * PolicySpacing) \div PolicyDen

\* C25: for n children with slack = L - (sum of child sizes + sum of gaps)
\* >= 0, child i starts at floor(offset + sum over j < i of (size_j + gap +
\* spacing)) from the container start, with offset and spacing (0, 0) for
\* start, (slack, 0) for end, (slack / 2, 0) for center, (0, slack / (n - 1))
\* for between, (spacing / 2, slack / n) for around and (spacing,
\* slack / (n + 1)) for evenly.
C25_MainPlacement ==
  (rendered /\ Slack >= 0) =>
     \A i \in 1..NChildren :
        MainStartOf(childRects[i]) = MainStartOf(flexRect) + PolicyStart(i)

MainEndOf(r) == MainStartOf(r) + MainOf(r)

\* C26: when the fixed sizes and the gaps fit in L and no child declares a min
\* size, under every justify policy the child rects lie within the
\* container's main-axis extent and child i ends where child i + 1 starts, or
\* before.
C26_WithinAndOrdered ==
  (rendered /\ FixF + GapSum <= LenL /\ NoMainMin) =>
     /\ \A i \in 1..NChildren :
          /\ MainStartOf(flexRect) <= MainStartOf(childRects[i])
          /\ MainEndOf(childRects[i]) <= MainStartOf(flexRect) + LenL
     /\ \A i \in 1..NChildren, j \in 1..NChildren :
          i < j => MainEndOf(childRects[i]) <= MainStartOf(childRects[j])

\* three children of size 1 spread "around" in length 7, the second one
\* placed one short of the middle
C26_Witness ==
  /\ rendered /\ flexProps.justify = "around" /\ NChildren = 3
  /\ LenL = 7 /\ flexProps.gap = 0
  /\ \A i \in 1..3 : MainOf(childRects[i]) = 1
  /\ MainStartOf(childRects[1]) = MainStartOf(flexRect)
  /\ MainStartOf(childRects[2]) = MainStartOf(flexRect) + 2
  /\ MainStartOf(childRects[3]) = MainStartOf(flexRect) + 5

DrawOps == {"set", "text", "hline", "vline", "fill", "clear"}

\* C27: between two render() calls set, text, hline, vline, fill and clear
\* modify only the current buffer: the snapshot the next render() diffs
\* against keeps the cell values the last render() saw, also when the same
\* cell object is passed to set() in successive frames and clear() resets
\* cells in place; the current buffer and the snapshot are never the same
\* grid.
C27_SnapshotFrame ==
  [][/\ buffer' # prevBuffer'
     /\ (last'.op \in DrawOps /\ prevBuffer # "null") => PrevGrid' = PrevGrid]_vars

====
